---- MODULE Spec2Model ----
(***************************************************************************)
(* A model of the sliding-sync proxy core:                                 *)
(*   - the poller-ready gate (handler.EnsurePoller),                       *)
(*   - the global room-metadata cache (caches.GlobalCache).                *)
(* Every handler that runs under the component's mutex is one atomic       *)
(* action; a blocking channel receive is an action of its own.             *)
(***************************************************************************)
EXTENDS Integers, Sequences, FiniteSets, TLC

\* ------------------------------------------------------------------ bounds

\* Number of goroutines that call EnsurePolling concurrently.
NumCallers == 2
\* Number of completion channels make(chan struct{}) may allocate in a run.
MaxChans == 2

\* Number of distinct users that send membership events.
NumSenders == 3
\* The most ops in the list of a response put on the wire.
MaxOps == 2
\* The most global account data events the user stores.
MaxStored == 2
\* The values a transaction's callback writes.
NumWrites == 4
\* The clients that call NewSession at the same time, and the most session ids
\* the sequence gives out.
NumClients == 2
MaxSessions == 2
\* The most filters InsertFilter stores.
MaxFilters == 2
\* The most payloads published on the v2 channel.
MaxPayloads == 2
\* The most typing notifications ingested.
MaxTyping == 2
\* The events the store takes in while LoadJoinedRooms is watched.
MaxEvents == 3
\* The longest input of Chunkify, and the largest parameter count.
MaxEntries == 4
MaxParams == 3

\* ------------------------------------------------------------ gate: values

Callers == 1..NumCallers
Chans == 1..MaxChans
\* The nil channel (the zero value of pendingInfo.ch).
NilCh == 0

GateUsers == {"@alice"}
GateDevices == {"D1", "D2"}
\* sync2.PollerID{UserID, DeviceID}
PollerIDs == [UserID : GateUsers, DeviceID : GateDevices]
TokenHashes == {"h1"}

\* A key that is absent from the pendingPolls map.
NoSlot == [present |-> FALSE, done |-> FALSE, ch |-> NilCh]
\* pendingInfo{done, ch} stored under a key.
Slot(done, ch) == [present |-> TRUE, done |-> done, ch |-> ch]

VARIABLES
    \* EnsurePoller.pendingPolls: PollerID -> pendingInfo (NoSlot: key absent)
    pendingPolls,
    \* per channel, the number of close() calls executed on it
    closes,
    \* the next channel make() returns
    nextChan,
    \* a Go runtime panic was raised ("" when none)
    panicked,
    \* the payloads published on the v3 channel, in order
    v3chan,
    \* per caller: where its EnsurePolling call stands
    \*   "idle" (not in a call), "notify" (slot created, about to publish),
    \*   "recv" (blocked in <-ch)
    pc,
    \* per caller: the arguments and the local ch of its call in progress
    callPid, callTok, callCh,
    \* per caller: which branch the call took: "done", "attach", "create"
    callPath,
    \* history, per caller: the call published a V3EnsurePolling
    callPublished,
    \* history, per caller: no OnExpiredToken(pid) was delivered since the call began
    callSameEpoch,
    \* history, per pid: an OnInitialSyncComplete(pid) was delivered at some time
    everComplete,
    \* history, per pid: V3EnsurePolling payloads published by calls that began
    \* after the last OnExpiredToken(pid)
    pubCount,
    \* GlobalCache.roomIDToMetadata: room id -> *RoomMetadata (NilMeta: no entry)
    roomIDToMetadata,
    \* the heap of map[string]struct{} objects; the map made for room r is object r
    mapHeap,
    \* store.InvitesTable: the outstanding (user, room) invites
    invitesTable,
    \* Startup has run
    started,
    \* the result of a reader's last LoadRooms call: room id -> copy (NoCopy: none)
    loaded,
    \* history: the last operation applied to the cache
    lastOp,
    \* history: the cache of a run that applies the same Startup and events and
    \* has no reader: [meta, heap]
    solo,
    \* one connection's list "a": [exists, filter, rooms, ops, count, answered]:
    \* the spaces filter and the room ids of its last response, that response's
    \* ops and count, and what the response answered ("none" before the first)
    conn,
    \* a Response on its way over the wire: [stage, ops, json, out, foreign]: the
    \* ops of list "a" as built, their JSON, the ops as decoded; foreign: the JSON
    \* was not made by Marshal
    wire,
    \* the account data extension of one connection: [initialDone, global, res,
    \* answered, update]: the connection's initial request was answered; the
    \* user's stored global account data; the last AccountDataResponse; what it
    \* answered ("none", "initial", "request", "live"); the update it was made for
    acct,
    \* the database and the last WithTransaction call: [db, calls, outcome, wrote,
    \* ret, propagated]: the committed value; the calls made on the database and
    \* the transaction, in order; how the callback ended and the value it wrote
    \* (0: it was not called); the error returned ("nil": none); whether a panic
    \* left WithTransaction
    tx,
    \* the sessions database and its NewSession callers: [devices, sessions,
    \* nextID, procs, got]: syncv3_sessions_v2devices (device id -> row),
    \* syncv3_sessions (rows), syncv3_session_id_seq, every client's
    \* NewSession call in progress, and the last Session lookup
    sess,
    \* the filter store: [filters, nextID, ins, got]: syncv3_filters (rows),
    \* syncv3_filter_id_seq, what the last InsertFilter returned, and the last
    \* Filter call with what it returned
    filt,
    \* the v2 channel and its subscriber: [published, next, calls, busy]: every
    \* payload published so far, the index of the next one to hand to onMessage,
    \* the receiver's method calls in order, and whether one is still running
    v2,
    \* one connection's typing extension: [typing, n, connected, connectedAt,
    \* lists, subs, ext, queue, res]: the latest typing event stored for each room
    \* (0: none) and the number of typing events ingested; whether the
    \* connection's initial request was answered, and how many typing events had
    \* been ingested by then; the range of each list; the room subscriptions; the
    \* extension's lists and rooms; the live typing updates waiting for the
    \* connection; the typing block of the last response
    typ,
    \* one LoadRooms call, room by room: [pc, ids, i, result, atLock]: where the
    \* call stands ("idle", "loop": it holds the read lock, "returned"), the room
    \* ids it was given, the index of the next one, the result map so far, and
    \* what a copy of every room would have been when the lock was taken
    snap,
    \* one LoadJoinedRooms call and the storage it reads: [log, applied, pc, pos,
    \* ids, ret]: the events table in position order; how many of its events the
    \* writer has handed to OnNewEvent; where the call stands ("idle", "gotPos",
    \* "gotRooms", "returned"); the position and the joined room ids it has read; what
    \* it returned, [pos, rooms, err] (rooms "nil": a nil map)
    ljr,
    \* one call each of Chunkify and Chunkify2 on the same input: [n, m, entries,
    \* c1, c2]: numParamsPerStmt, maxParamsPerCall and the entries; for Chunkify (c1)
    \* and Chunkify2 (c2) where the call stands ("idle", "called", "loop",
    \* "returned"), the loop index i, the chunks so far, and whether the turns taken
    \* after the last chunk kept are odd in number
    chk

gateVars == <<pendingPolls, closes, nextChan, panicked, v3chan, pc, callPid, callTok,
              callCh, callPath, callPublished, callSameEpoch,
              everComplete, pubCount>>

cacheVars == <<roomIDToMetadata, mapHeap, invitesTable, started, loaded, lastOp, solo>>

\* What a gate operation leaves alone, and what a cache operation leaves alone.
notGateVars == <<cacheVars, conn, wire, acct, tx, sess, filt, v2, typ, snap, ljr, chk>>
notCacheVars == <<gateVars, conn, wire, acct, tx, sess, filt, v2, typ, snap, ljr, chk>>
notConnVars == <<gateVars, cacheVars, wire, acct, tx, sess, filt, v2, typ, snap, ljr, chk>>
notWireVars == <<gateVars, cacheVars, conn, acct, tx, sess, filt, v2, typ, snap, ljr, chk>>
notAcctVars == <<gateVars, cacheVars, conn, wire, tx, sess, filt, v2, typ, snap, ljr, chk>>
notTxVars == <<gateVars, cacheVars, conn, wire, acct, sess, filt, v2, typ, snap, ljr, chk>>
notSessVars == <<gateVars, cacheVars, conn, wire, acct, tx, filt, v2, typ, snap, ljr, chk>>
notFiltVars == <<gateVars, cacheVars, conn, wire, acct, tx, sess, v2, typ, snap, ljr, chk>>
notV2Vars == <<gateVars, cacheVars, conn, wire, acct, tx, sess, filt, typ, snap, ljr, chk>>
notTypVars == <<gateVars, cacheVars, conn, wire, acct, tx, sess, filt, v2, snap, ljr, chk>>
notSnapVars == <<gateVars, cacheVars, conn, wire, acct, tx, sess, filt, v2, typ, ljr, chk>>
notCacheSnapVars == <<gateVars, conn, wire, acct, tx, sess, filt, v2, typ, ljr, chk>>
notJoinedVars == <<gateVars, cacheVars, conn, wire, acct, tx, sess, filt, v2, typ, snap, chk>>
notCacheJoinedVars == <<gateVars, conn, wire, acct, tx, sess, filt, v2, typ, snap, chk>>
notChunkVars == <<gateVars, cacheVars, conn, wire, acct, tx, sess, filt, v2, typ, snap, ljr>>

vars == <<gateVars, cacheVars, conn, wire, acct, tx, sess, filt, v2, typ, snap, ljr, chk>>

AnyPid == CHOOSE p \in PollerIDs : TRUE
AnyTok == CHOOSE t \in TokenHashes : TRUE

\* NewEnsurePoller: an empty map; no call has been made.
GateInit ==
    /\ pendingPolls = [p \in PollerIDs |-> NoSlot]
    /\ closes = [c \in Chans |-> 0]
    /\ nextChan = 1
    /\ panicked = ""
    /\ v3chan = <<>>
    /\ pc = [c \in Callers |-> "idle"]
    /\ callPid = [c \in Callers |-> AnyPid]
    /\ callTok = [c \in Callers |-> AnyTok]
    /\ callCh = [c \in Callers |-> NilCh]
    /\ callPath = [c \in Callers |-> "none"]
    /\ callPublished = [c \in Callers |-> FALSE]
    /\ callSameEpoch = [c \in Callers |-> TRUE]
    /\ everComplete = [p \in PollerIDs |-> FALSE]
    /\ pubCount = [p \in PollerIDs |-> 0]

\* Callers whose EnsurePolling(p) call is in progress.
InCall(p) == {c \in Callers : pc[c] \in {"notify", "recv"} /\ callPid[c] = p}

\* close(ch): panics on a nil channel and on a closed channel.
ClosePanic(ch) ==
    IF ch = NilCh THEN "close of nil channel"
    ELSE IF closes[ch] > 0 THEN "close of closed channel"
    ELSE ""

CloseChan(ch) ==
    /\ panicked' = ClosePanic(ch)
    /\ closes' = IF ch = NilCh THEN closes ELSE [closes EXCEPT ![ch] = @ + 1]

\* A receive on ch can proceed: only a closed channel ever delivers (nothing is sent).
CanRecv(ch) == ch # NilCh /\ closes[ch] > 0

\* EnsurePolling, lines 45-50: the slot is done, return at once.
EnsurePollingDone(c, p, t) ==
    /\ pendingPolls[p].done
    /\ UNCHANGED <<pendingPolls, nextChan, pc, callPid, callTok, callCh, callPath>>

\* Mutant: a pending slot is not recognised and the call stores a slot of its own.
EnsurePollingAttachCreates(c, p, t) ==
    /\ ~pendingPolls[p].done
    /\ pendingPolls[p].ch # NilCh
    /\ nextChan <= MaxChans
    /\ pendingPolls' = [pendingPolls EXCEPT ![p] = Slot(FALSE, nextChan)]
    /\ nextChan' = nextChan + 1
    /\ pc' = [pc EXCEPT ![c] = "notify"]
    /\ callPath' = [callPath EXCEPT ![c] = "create"]
    /\ callCh' = [callCh EXCEPT ![c] = nextChan]
    /\ callPid' = [callPid EXCEPT ![c] = p]
    /\ callTok' = [callTok EXCEPT ![c] = t]

\* EnsurePolling, lines 52-61: the slot is pending, listen for its close.
EnsurePollingAttach(c, p, t) ==
    /\ ~pendingPolls[p].done
    /\ pendingPolls[p].ch # NilCh
    /\ pc' = [pc EXCEPT ![c] = "recv"]
    /\ callPath' = [callPath EXCEPT ![c] = "attach"]
    /\ callCh' = [callCh EXCEPT ![c] = pendingPolls[p].ch]
    /\ callPid' = [callPid EXCEPT ![c] = p]
    /\ callTok' = [callTok EXCEPT ![c] = t]
    /\ UNCHANGED <<pendingPolls, nextChan>>

\* EnsurePolling, lines 62-68: no slot, make a channel and store the slot.
EnsurePollingCreate(c, p, t) ==
    /\ ~pendingPolls[p].done
    /\ pendingPolls[p].ch = NilCh
    /\ nextChan <= MaxChans
    /\ pendingPolls' = [pendingPolls EXCEPT ![p] = Slot(FALSE, nextChan)]
    /\ nextChan' = nextChan + 1
    /\ pc' = [pc EXCEPT ![c] = "notify"]
    /\ callPath' = [callPath EXCEPT ![c] = "create"]
    /\ callCh' = [callCh EXCEPT ![c] = nextChan]
    /\ callPid' = [callPid EXCEPT ![c] = p]
    /\ callTok' = [callTok EXCEPT ![c] = t]

\* The critical section of EnsurePolling(pid, tokenHash), lines 44-68.
EnsurePollingLocked(c, p, t) ==
    \/ EnsurePollingDone(c, p, t)
    \/ EnsurePollingAttach(c, p, t)
    \/ EnsurePollingCreate(c, p, t)

\* A goroutine calls EnsurePolling(p, t) and runs its critical section.
EnsurePolling(c, p, t) ==
    /\ panicked = ""
    /\ pc[c] = "idle"
    /\ \A d \in Callers : d < c => pc[d] # "idle"
    /\ EnsurePollingLocked(c, p, t)
    /\ UNCHANGED <<callPublished, callSameEpoch>>
    /\ UNCHANGED <<closes, panicked, v3chan, everComplete, pubCount,
                   notGateVars>>

\* EnsurePolling, lines 70-74: p.notifier.Notify(chanName, &V3EnsurePolling{...}).
Notify(c) ==
    /\ panicked = ""
    /\ pc[c] = "notify"
    /\ v3chan' = Append(v3chan, [UserID |-> callPid[c].UserID,
                                 DeviceID |-> callPid[c].DeviceID,
                                 AccessTokenHash |-> callTok[c]])
    /\ pc' = [pc EXCEPT ![c] = "recv"]
    /\ callPublished' = [callPublished EXCEPT ![c] = TRUE]
    /\ pubCount' = [pubCount EXCEPT ![callPid[c]] =
                        IF callSameEpoch[c] THEN @ + 1 ELSE @]
    /\ UNCHANGED <<pendingPolls, closes, nextChan, panicked, callPid, callTok, callCh,
                   callPath, callSameEpoch, everComplete,
                   notGateVars>>

\* The call of c returns: its locals are gone.
Return(c) ==
    /\ pc' = [pc EXCEPT ![c] = "idle"]
    /\ callPid' = [callPid EXCEPT ![c] = AnyPid]
    /\ callTok' = [callTok EXCEPT ![c] = AnyTok]
    /\ callCh' = [callCh EXCEPT ![c] = NilCh]
    /\ callPath' = [callPath EXCEPT ![c] = "none"]
    /\ callPublished' = [callPublished EXCEPT ![c] = FALSE]
    /\ callSameEpoch' = [callSameEpoch EXCEPT ![c] = TRUE]

\* Mutant: the receive does not wait for the close.
RecvNoWait(c) ==
    /\ panicked = ""
    /\ pc[c] = "recv"
    /\ Return(c)
    /\ UNCHANGED <<pendingPolls, closes, nextChan, panicked, v3chan, everComplete,
                   pubCount, notGateVars>>

\* EnsurePolling, lines 59 and 77: <-ch returns once ch is closed.
Recv(c) ==
    /\ panicked = ""
    /\ pc[c] = "recv"
    /\ CanRecv(callCh[c])
    /\ Return(c)
    /\ UNCHANGED <<pendingPolls, closes, nextChan, panicked, v3chan, everComplete,
                   pubCount, notGateVars>>

\* Mutant: a completion that nobody asked for is dropped.
CompleteNoSlotIgnored(p) ==
    /\ ~pendingPolls[p].present
    /\ UNCHANGED <<pendingPolls, closes, panicked>>

\* OnInitialSyncComplete, lines 84-93: no slot (a spontaneous poll).
CompleteNoSlot(p) ==
    /\ ~pendingPolls[p].present
    /\ pendingPolls' = [pendingPolls EXCEPT ![p] = Slot(TRUE, NilCh)]
    /\ UNCHANGED <<closes, panicked>>

\* OnInitialSyncComplete, lines 94-97: already done.
CompleteAlreadyDone(p) ==
    /\ pendingPolls[p].present
    /\ pendingPolls[p].done
    /\ UNCHANGED <<pendingPolls, closes, panicked>>

\* Mutant: the closed channel stays in the slot.
CompletePendingKeepsChannel(p) ==
    /\ pendingPolls[p].present
    /\ ~pendingPolls[p].done
    /\ pendingPolls' = [pendingPolls EXCEPT ![p] = Slot(TRUE, pendingPolls[p].ch)]
    /\ CloseChan(pendingPolls[p].ch)

\* Mutant: the slot is marked done and the channel is not closed.
CompletePendingNoClose(p) ==
    /\ pendingPolls[p].present
    /\ ~pendingPolls[p].done
    /\ pendingPolls' = [pendingPolls EXCEPT ![p] = Slot(TRUE, NilCh)]
    /\ UNCHANGED <<closes, panicked>>

\* OnInitialSyncComplete, lines 100-104: wake the waiters up.
CompletePending(p) ==
    /\ pendingPolls[p].present
    /\ ~pendingPolls[p].done
    /\ pendingPolls' = [pendingPolls EXCEPT ![p] = Slot(TRUE, NilCh)]
    /\ CloseChan(pendingPolls[p].ch)

\* The body of OnInitialSyncComplete, lines 80-105.
OnInitialSyncCompleteLocked(p) ==
    \/ CompleteNoSlot(p)
    \/ CompleteAlreadyDone(p)
    \/ CompletePending(p)

OnInitialSyncComplete(p) ==
    /\ panicked = ""
    /\ OnInitialSyncCompleteLocked(p)
    /\ everComplete' = [everComplete EXCEPT ![p] = TRUE]
    /\ UNCHANGED <<nextChan, v3chan, pc, callPid, callTok, callCh, callPath,
                   callPublished, callSameEpoch, pubCount,
                   notGateVars>>

\* OnExpiredToken, lines 112-115: nothing is tracked for this poller.
ExpiredNoSlot(p) ==
    /\ ~pendingPolls[p].present
    /\ UNCHANGED <<pendingPolls, closes, panicked>>

\* Mutant: the slot is deleted and its channel is not closed.
ExpiredSlotNoClose(p) ==
    /\ pendingPolls[p].present
    /\ pendingPolls' = [pendingPolls EXCEPT ![p] = NoSlot]
    /\ UNCHANGED <<closes, panicked>>

\* Mutant: the channel is closed and the slot is not deleted.
ExpiredSlotKeepsSlot(p) ==
    /\ pendingPolls[p].present
    /\ IF pendingPolls[p].ch # NilCh
          THEN CloseChan(pendingPolls[p].ch)
          ELSE UNCHANGED <<closes, panicked>>
    /\ UNCHANGED pendingPolls

\* Mutant: the slots are found by user id, so the user's other devices lose
\* theirs too.
ExpiredSlotOfUser(p) ==
    /\ pendingPolls[p].present
    /\ IF pendingPolls[p].ch # NilCh
          THEN CloseChan(pendingPolls[p].ch)
          ELSE UNCHANGED <<closes, panicked>>
    /\ pendingPolls' = [q \in PollerIDs |->
                            IF q.UserID = p.UserID THEN NoSlot ELSE pendingPolls[q]]

\* OnExpiredToken, lines 116-120: close the channel if there is one, delete the slot.
ExpiredSlot(p) ==
    /\ pendingPolls[p].present
    /\ IF pendingPolls[p].ch # NilCh
          THEN CloseChan(pendingPolls[p].ch)
          ELSE UNCHANGED <<closes, panicked>>
    /\ pendingPolls' = [pendingPolls EXCEPT ![p] = NoSlot]

\* The body of OnExpiredToken, lines 107-121.
OnExpiredTokenLocked(p) ==
    \/ ExpiredNoSlot(p)
    \/ ExpiredSlot(p)

OnExpiredToken(p) ==
    /\ panicked = ""
    /\ OnExpiredTokenLocked(p)
    /\ callSameEpoch' = [c \in Callers |->
                        IF c \in InCall(p) THEN FALSE ELSE callSameEpoch[c]]
    /\ pubCount' = [pubCount EXCEPT ![p] = 0]
    /\ UNCHANGED <<nextChan, v3chan, pc, callPid, callTok, callCh, callPath,
                   callPublished, everComplete,
                   notGateVars>>

GateNext ==
    \/ \E c \in Callers, p \in PollerIDs, t \in TokenHashes : EnsurePolling(c, p, t)
    \/ \E c \in Callers : Notify(c)
    \/ \E c \in Callers : Recv(c)
    \/ \E p \in PollerIDs : OnInitialSyncComplete(p)
    \/ \E p \in PollerIDs : OnExpiredToken(p)

\* ----------------------------------------------------------- cache: values

\* The most heroes OnNewEvent lets a room have.
HeroLimit == 6

UserPool == <<"@u1", "@u2", "@u3", "@u4", "@u5", "@u6", "@u7", "@u8", "@u9">>
\* The users whose membership events arrive: the last hero Startup may load and
\* NumSenders - 1 users after it.
Senders == {UserPool[i] : i \in (HeroLimit - 1)..(HeroLimit + NumSenders - 2)}
RoomIDs == {"!a", "!b"}
\* A nil *string (an absent state key, an unset optional id) and a nil map.
NilStr == "<nil>"

\* internal.Hero{ID, Name}
Hero(id, name) == [ID |-> id, Name |-> name]
\* An unset json.RawMessage.
NoPayload == [type |-> "", body |-> ""]

\* No entry under a room id in roomIDToMetadata (a nil *RoomMetadata).
NilMeta ==
    [RoomID |-> "", NameEvent |-> "", Encrypted |-> FALSE, UpgradedRoomID |-> NilStr,
     CanonicalAlias |-> "", RoomType |-> NilStr, PredecessorRoomID |-> NilStr,
     ChildSpaceRooms |-> NilStr, JoinCount |-> 0, InviteCount |-> 0, Heroes |-> <<>>,
     LastMessageTimestamp |-> 0, TypingEvent |-> NoPayload]

\* &internal.RoomMetadata{RoomID: roomID, ChildSpaceRooms: make(map[string]struct{})}
\* The ChildSpaceRooms field holds a reference into mapHeap.
NewMetadata(roomID) == [NilMeta EXCEPT !.RoomID = roomID, !.ChildSpaceRooms = roomID]

\* The *string fields of RoomMetadata.
PtrFields == {"UpgradedRoomID", "RoomType", "PredecessorRoomID"}

\* EventData: the fields OnNewEvent reads. The content fields hold what gjson's
\* .Str gives ("" when the field is missing); roomType is NilStr when content.type
\* is missing or not a string; viaIsArray is content.via.IsArray();
\* prevMembership is unsigned.prev_content.membership.
EventData(room, type, sk) ==
    [RoomID |-> room, EventType |-> type, StateKey |-> sk, Timestamp |-> 2,
     JoinCount |-> 0, InviteCount |-> 0, name |-> "", replacement_room |-> "",
     alias |-> "", roomType |-> NilStr, predecessor |-> "", viaIsArray |-> FALSE,
     membership |-> "", displayname |-> "", prevMembership |-> ""]

NoEvent == EventData("", "", NilStr)

\* No copy of a room in a LoadRooms result.
NoCopy == [meta |-> NilMeta, shared |-> {}, atLoad |-> NilMeta, dirty |-> FALSE]

\* NewGlobalCache: an empty map.
CacheInit ==
    /\ roomIDToMetadata = [r \in RoomIDs |-> NilMeta]
    /\ mapHeap = [r \in RoomIDs |-> {}]
    /\ invitesTable = {<<UserPool[1], "!a">>}
    /\ started = FALSE
    /\ loaded = [r \in RoomIDs |-> NoCopy]
    /\ lastOp = [op |-> "NewGlobalCache", ed |-> NoEvent]
    /\ solo = [meta |-> [r \in RoomIDs |-> NilMeta], heap |-> [r \in RoomIDs |-> {}]]

\* The map object a metadata's ChildSpaceRooms field refers to.
Deref(ref) == IF ref = NilStr THEN {} ELSE mapHeap[ref]

\* A metadata with its ChildSpaceRooms reference replaced by the map's contents.
DeepValue(md) == [md EXCEPT !.ChildSpaceRooms = Deref(md.ChildSpaceRooms)]

\* The children of room r in the cache.
Children(r) == Deref(roomIDToMetadata[r].ChildSpaceRooms)

\* What the cache holds for room r, nested containers included.
CacheValue(r) == DeepValue(roomIDToMetadata[r])

\* What the reader's copy of room r holds, nested containers included.
CopyValue(r) == DeepValue(loaded[r].meta)

\* ------------------------------------------------------- cache: operations

\* Startup, lines 298-316: store every given metadata under its room id. The
\* argument maps a room id to [md, children] (NilMeta: the room is not given);
\* both assertions hold of every given room.
ValidStartup(m) ==
    \A r \in RoomIDs :
        m[r].md # NilMeta =>
            /\ m[r].md.RoomID = r
            /\ m[r].md.LastMessageTimestamp > 1
            /\ m[r].md.ChildSpaceRooms = r

\* lines 309-314: the entries of metas after the loop.
StartupMeta(metas, m) ==
    [r \in RoomIDs |-> IF m[r].md # NilMeta THEN m[r].md ELSE metas[r]]

\* The map objects the given metadata bring with them.
StartupHeap(heap, m) ==
    [r \in RoomIDs |-> IF m[r].md # NilMeta THEN m[r].children ELSE heap[r]]

Startup(m) ==
    /\ ~started
    /\ ValidStartup(m)
    /\ roomIDToMetadata' = StartupMeta(roomIDToMetadata, m)
    /\ mapHeap' = StartupHeap(mapHeap, m)
    /\ solo' = [meta |-> StartupMeta(solo.meta, m), heap |-> StartupHeap(solo.heap, m)]
    /\ started' = TRUE
    /\ lastOp' = [op |-> "Startup", ed |-> NoEvent]
    /\ UNCHANGED <<invitesTable, loaded, notCacheVars>>

\* OnNewEvent, lines 347-353, and OnEphemeralEvent, lines 326-332.
MetadataIn(metas, roomID) ==
    IF metas[roomID] = NilMeta THEN NewMetadata(roomID) ELSE metas[roomID]

MetadataFor(roomID) == MetadataIn(roomIDToMetadata, roomID)

\* Mutant: the name is taken from an event with any state key.
OnRoomNameAnyKey(md, ed) ==
    IF ed.StateKey # NilStr THEN [md EXCEPT !.NameEvent = ed.name] ELSE md

\* lines 355-358
OnRoomName(md, ed) ==
    IF ed.StateKey = "" THEN [md EXCEPT !.NameEvent = ed.name] ELSE md

\* Mutant: the flag follows the event: set by an empty state key, cleared by
\* any other.
OnRoomEncryptionToggles(md, ed) ==
    [md EXCEPT !.Encrypted = (ed.StateKey = "")]

\* lines 359-362
OnRoomEncryption(md, ed) ==
    IF ed.StateKey = "" THEN [md EXCEPT !.Encrypted = TRUE] ELSE md

\* lines 363-371
OnRoomTombstone(md, ed) ==
    IF ed.StateKey = ""
        THEN [md EXCEPT !.UpgradedRoomID =
                  IF ed.replacement_room = "" THEN NilStr ELSE ed.replacement_room]
        ELSE md

\* lines 372-375
OnCanonicalAlias(md, ed) ==
    IF ed.StateKey = "" THEN [md EXCEPT !.CanonicalAlias = ed.alias] ELSE md

\* lines 376-386
OnRoomCreate(md, ed) ==
    IF ed.StateKey = ""
        THEN [md EXCEPT !.RoomType = IF ed.roomType # NilStr THEN ed.roomType ELSE @,
                        !.PredecessorRoomID =
                            IF ed.predecessor # "" THEN ed.predecessor ELSE @]
        ELSE md

\* Mutant: the state key is tested like the other cases test it, so an empty
\* state key counts as absent.
OnSpaceChildNonEmptyKey(children, ed) ==
    IF ed.StateKey # NilStr /\ ed.StateKey # ""
        THEN IF ~ed.viaIsArray
                THEN children \ {ed.StateKey}
                ELSE children \cup {ed.StateKey}
        ELSE children

\* lines 387-395: the child set after an m.space.child event.
OnSpaceChild(children, ed) ==
    IF ed.StateKey # NilStr
        THEN IF ~ed.viaIsArray
                THEN children \ {ed.StateKey}
                ELSE children \cup {ed.StateKey}
        ELSE children

\* internal.IsMembershipChange(eventJSON): the membership in the event differs
\* from the one in the content it replaces.
IsMembershipChange(ed) == ed.prevMembership # ed.membership

\* RoomMetadata.RemoveHero(userID)
RemoveHero(heroes, userID) == SelectSeq(heroes, LAMBDA h : h.ID # userID)

\* The first index of userID in heroes, 0 when absent.
HeroIndex(heroes, userID) ==
    IF \E i \in 1..Len(heroes) : heroes[i].ID = userID
        THEN CHOOSE i \in 1..Len(heroes) :
                /\ heroes[i].ID = userID
                /\ \A j \in 1..(i - 1) : heroes[j].ID # userID
        ELSE 0

\* Mutant: the length test lets a hero in when the list is full.
AddOrUpdateHeroOffByOne(heroes, ed) ==
    IF Len(heroes) <= HeroLimit /\ ed.membership \in {"join", "invite"}
        THEN IF HeroIndex(heroes, ed.StateKey) # 0
                THEN [heroes EXCEPT ![HeroIndex(heroes, ed.StateKey)].Name = ed.displayname]
                ELSE Append(heroes, Hero(ed.StateKey, ed.displayname))
        ELSE heroes

\* Mutant: the joined or invited user is appended without a look for it.
AddOrUpdateHeroAppends(heroes, ed) ==
    IF Len(heroes) < HeroLimit /\ ed.membership \in {"join", "invite"}
        THEN Append(heroes, Hero(ed.StateKey, ed.displayname))
        ELSE heroes

\* lines 416-432: add the joined or invited user, or update its display name.
AddOrUpdateHero(heroes, ed) ==
    IF Len(heroes) < HeroLimit /\ ed.membership \in {"join", "invite"}
        THEN IF HeroIndex(heroes, ed.StateKey) # 0
                THEN [heroes EXCEPT ![HeroIndex(heroes, ed.StateKey)].Name = ed.displayname]
                ELSE Append(heroes, Hero(ed.StateKey, ed.displayname))
        ELSE heroes

\* Mutant: every member event with a state key adopts the counts.
OnMembershipChangeAlways(md, ed) ==
    [md EXCEPT !.JoinCount = ed.JoinCount,
               !.InviteCount = ed.InviteCount,
               !.Heroes = IF IsMembershipChange(ed) /\ ed.membership \in {"leave", "ban"}
                             THEN RemoveHero(@, ed.StateKey)
                             ELSE @]

\* lines 400-406: a membership change adopts the counts and drops a departed hero.
OnMembershipChange(md, ed) ==
    IF IsMembershipChange(ed)
        THEN [md EXCEPT !.JoinCount = ed.JoinCount,
                        !.InviteCount = ed.InviteCount,
                        !.Heroes = IF ed.membership \in {"leave", "ban"}
                                      THEN RemoveHero(@, ed.StateKey)
                                      ELSE @]
        ELSE md

\* lines 396-433
OnRoomMember(md, ed) ==
    IF ed.StateKey # NilStr
        THEN [OnMembershipChange(md, ed) EXCEPT !.Heroes = AddOrUpdateHero(@, ed)]
        ELSE md

\* lines 408-414: an accepted invite is removed from the invites table.
RetireInvite(invites, ed) ==
    IF /\ ed.EventType = "m.room.member"
       /\ ed.StateKey # NilStr
       /\ IsMembershipChange(ed)
       /\ ed.membership = "join"
       /\ ed.prevMembership = "invite"
        THEN invites \ {<<ed.StateKey, ed.RoomID>>}
        ELSE invites

\* Mutant: the timestamp only ever grows.
ApplyEventMaxTimestamp(md, ed) ==
    LET switched ==
            CASE ed.EventType = "m.room.name" -> OnRoomName(md, ed)
              [] ed.EventType = "m.room.encryption" -> OnRoomEncryption(md, ed)
              [] ed.EventType = "m.room.tombstone" -> OnRoomTombstone(md, ed)
              [] ed.EventType = "m.room.canonical_alias" -> OnCanonicalAlias(md, ed)
              [] ed.EventType = "m.room.create" -> OnRoomCreate(md, ed)
              [] ed.EventType = "m.room.member" -> OnRoomMember(md, ed)
              [] OTHER -> md
    IN  [switched EXCEPT !.LastMessageTimestamp =
                            IF ed.Timestamp > @ THEN ed.Timestamp ELSE @]

\* lines 354-435: the switch on the event type, then the timestamp.
ApplyEvent(md, ed) ==
    LET switched ==
            CASE ed.EventType = "m.room.name" -> OnRoomName(md, ed)
              [] ed.EventType = "m.room.encryption" -> OnRoomEncryption(md, ed)
              [] ed.EventType = "m.room.tombstone" -> OnRoomTombstone(md, ed)
              [] ed.EventType = "m.room.canonical_alias" -> OnCanonicalAlias(md, ed)
              [] ed.EventType = "m.room.create" -> OnRoomCreate(md, ed)
              [] ed.EventType = "m.room.member" -> OnRoomMember(md, ed)
              [] OTHER -> md
    IN  [switched EXCEPT !.LastMessageTimestamp = ed.Timestamp]

\* The *string fields of the room's metadata that the event points at a new cell.
Reassigned(ed) ==
    IF ed.StateKey # "" THEN {}
    ELSE IF ed.EventType = "m.room.tombstone" THEN {"UpgradedRoomID"}
    ELSE IF ed.EventType = "m.room.create"
        THEN (IF ed.roomType # NilStr THEN {"RoomType"} ELSE {})
             \cup (IF ed.predecessor # "" THEN {"PredecessorRoomID"} ELSE {})
    ELSE {}

\* lines 347-353 and 435-436: the entries of metas after OnNewEvent(ed).
EventMeta(metas, ed) ==
    [metas EXCEPT ![ed.RoomID] = ApplyEvent(MetadataIn(metas, ed.RoomID), ed)]

\* lines 387-395: the map objects after OnNewEvent(ed).
EventHeap(heap, ed) ==
    [heap EXCEPT ![ed.RoomID] = IF ed.EventType = "m.space.child"
                                   THEN OnSpaceChild(@, ed)
                                   ELSE @]

\* OnNewEvent(ed), lines 341-437.
OnNewEvent(ed) ==
    /\ started
    /\ roomIDToMetadata' = EventMeta(roomIDToMetadata, ed)
    /\ mapHeap' = EventHeap(mapHeap, ed)
    /\ solo' = [meta |-> EventMeta(solo.meta, ed), heap |-> EventHeap(solo.heap, ed)]
    /\ invitesTable' = RetireInvite(invitesTable, ed)
    /\ loaded' = [loaded EXCEPT ![ed.RoomID].shared = @ \ Reassigned(ed)]
    /\ lastOp' = [op |-> "OnNewEvent", ed |-> ed]
    /\ UNCHANGED <<started, notCacheVars>>

\* OnEphemeralEvent(roomID, ephEvent), lines 322-339.
\* Mutant: the metadata is stored inside the m.typing case only.
EphemeralMetaTypingOnly(metas, roomID, ephEvent) ==
    IF ephEvent.type = "m.typing"
        THEN [metas EXCEPT ![roomID] = [MetadataIn(metas, roomID) EXCEPT
                                           !.TypingEvent = ephEvent]]
        ELSE metas

\* Mutant: the payload is stored whatever its type.
EphemeralMetaAnyType(metas, roomID, ephEvent) ==
    [metas EXCEPT ![roomID] = [MetadataIn(metas, roomID) EXCEPT !.TypingEvent = ephEvent]]

\* lines 326-338: the entries of metas after OnEphemeralEvent(roomID, ephEvent).
EphemeralMeta(metas, roomID, ephEvent) ==
    [metas EXCEPT ![roomID] = IF ephEvent.type = "m.typing"
                                 THEN [MetadataIn(metas, roomID) EXCEPT
                                           !.TypingEvent = ephEvent]
                                 ELSE MetadataIn(metas, roomID)]

OnEphemeralEvent(roomID, ephEvent) ==
    /\ started
    /\ roomIDToMetadata' = EphemeralMeta(roomIDToMetadata, roomID, ephEvent)
    /\ solo' = [solo EXCEPT !.meta = EphemeralMeta(@, roomID, ephEvent)]
    /\ lastOp' = [op |-> "OnEphemeralEvent", ed |-> NoEvent]
    /\ UNCHANGED <<mapHeap, invitesTable, started, loaded, notCacheVars>>

\* lines 199-205: srCopy := *sr, then the heroes are copied into a new slice.
\* Every other field is copied as it is: the ChildSpaceRooms reference and the
\* non-nil *string fields still refer to the cache's objects.
CopyOf(sr) ==
    [meta |-> sr,
     shared |-> {f \in PtrFields : sr[f] # NilStr},
     atLoad |-> DeepValue(sr),
     dirty |-> FALSE]

\* Mutant: a room with no entry gets one made for it.
LoadRoomsMakesEntries(roomIDs) ==
    /\ started
    /\ loaded' = [r \in RoomIDs |->
                    IF r \in roomIDs THEN CopyOf(MetadataFor(r)) ELSE NoCopy]
    /\ roomIDToMetadata' = [r \in RoomIDs |->
                    IF r \in roomIDs THEN MetadataFor(r) ELSE roomIDToMetadata[r]]
    /\ lastOp' = [op |-> "LoadRooms", ed |-> NoEvent]
    /\ UNCHANGED <<mapHeap, invitesTable, started, solo, notCacheVars>>

\* LoadRooms(roomIDs...), lines 188-208: a copy of every given room that has an entry.
LoadRooms(roomIDs) ==
    /\ started
    /\ loaded' = [r \in RoomIDs |->
                    IF r \in roomIDs /\ roomIDToMetadata[r] # NilMeta
                        THEN CopyOf(roomIDToMetadata[r])
                        ELSE NoCopy]
    /\ lastOp' = [op |-> "LoadRooms", ed |-> NoEvent]
    /\ UNCHANGED <<roomIDToMetadata, mapHeap, invitesTable, started, solo, notCacheVars>>

\* The caller of LoadRooms renames the first hero of its copy of room r.
MutateCopyHeroes(r, name) ==
    /\ loaded[r] # NoCopy
    /\ Len(loaded[r].meta.Heroes) > 0
    /\ loaded' = [loaded EXCEPT ![r].meta.Heroes[1].Name = name, ![r].dirty = TRUE]
    /\ lastOp' = [op |-> "MutateCopyHeroes", ed |-> NoEvent]
    /\ UNCHANGED <<roomIDToMetadata, mapHeap, invitesTable, started, solo, notCacheVars>>

\* The caller of LoadRooms adds a key to the ChildSpaceRooms map of its copy of r.
MutateCopyChildren(r, child) ==
    /\ loaded[r] # NoCopy
    /\ loaded[r].meta.ChildSpaceRooms # NilStr
    /\ mapHeap' = [mapHeap EXCEPT ![loaded[r].meta.ChildSpaceRooms] = @ \cup {child}]
    /\ loaded' = [loaded EXCEPT ![r].dirty = TRUE]
    /\ lastOp' = [op |-> "MutateCopyChildren", ed |-> NoEvent]
    /\ UNCHANGED <<roomIDToMetadata, invitesTable, started, solo, notCacheVars>>

\* The caller of LoadRooms writes through a non-nil *string field f of its copy:
\* the write reaches the cache while the cache still points at the same cell.
MutateCopyPointer(r, f, v) ==
    /\ loaded[r] # NoCopy
    /\ loaded[r].meta[f] # NilStr
    /\ loaded' = [loaded EXCEPT ![r].meta[f] = v, ![r].dirty = TRUE]
    /\ roomIDToMetadata' = IF f \in loaded[r].shared
                              THEN [roomIDToMetadata EXCEPT ![r][f] = v]
                              ELSE roomIDToMetadata
    /\ lastOp' = [op |-> "MutateCopyPointer", ed |-> NoEvent]
    /\ UNCHANGED <<mapHeap, invitesTable, started, solo, notCacheVars>>

\* ------------------------------------------------------ connection: lists

\* ResponseOpRange{Operation, Range, RoomIDs}
OpRange(op, lo, hi, ids) ==
    [kind |-> "range", Operation |-> op, Range |-> <<lo, hi>>, RoomIDs |-> ids]

\* The user's rooms in the list's sort order (most recent first): two spaces and
\* a room; the space !b may itself be a child.
SortedRooms == <<"!c", "!b", "!a">>

\* No list yet on the connection.
ConnInit ==
    conn = [exists |-> FALSE, filter |-> {}, rooms |-> <<>>, ops |-> <<>>,
            count |-> 0, answered |-> "none"]

\* Mutant: the listed spaces are combined like the filters are, with AND.
IncludeInEverySpace(r, spaces) == \A sp \in spaces : r \in Children(sp)

\* The spaces filter: the room is a child of any listed space.
IncludeBySpaces(r, spaces) == \E sp \in spaces : r \in Children(sp)

\* The materialised list: the user's rooms that pass the filter, in sort order.
FilterRooms(spaces) == SelectSeq(SortedRooms, LAMBDA r : IncludeBySpaces(r, spaces))

\* One SYNC for the requested range [0, 20], cut to the rooms there are.
SyncOps(rooms) ==
    IF Len(rooms) = 0 THEN <<>> ELSE <<OpRange("SYNC", 0, Len(rooms) - 1, rooms)>>

\* One INVALIDATE for the range that was sent.
InvalidateOps(rooms) ==
    IF Len(rooms) = 0 THEN <<>> ELSE <<OpRange("INVALIDATE", 0, Len(rooms) - 1, <<>>)>>

\* Mutant: the new contents are sent before the old range is invalidated.
RefilterOpsSyncFirst(old, new) == SyncOps(new) \o InvalidateOps(old)

\* The ops of a response to a request that changes the filter of a live list.
RefilterOps(old, new) == InvalidateOps(old) \o SyncOps(new)

\* A request for list "a" with ranges [[0, 20]] and filter spaces: the first
\* request of a connection (no pos), or a request on the live connection that
\* changes the filter.
ListRequest(spaces, hasPos) ==
    /\ started
    /\ spaces # {}
    /\ hasPos => conn.exists /\ spaces # conn.filter
    /\ conn' = [exists |-> TRUE,
                filter |-> spaces,
                rooms |-> FilterRooms(spaces),
                ops |-> IF hasPos THEN RefilterOps(conn.rooms, FilterRooms(spaces))
                                  ELSE SyncOps(FilterRooms(spaces)),
                count |-> Len(FilterRooms(spaces)),
                answered |-> IF hasPos THEN "refilter" ELSE "initial"]
    /\ UNCHANGED notConnVars

\* ------------------------------------------------------- response: wire

\* A []string: nil, or the given elements.
Slice(isNil, elems) == [isNil |-> isNil, elems |-> elems]
\* A *int: nil, or a pointer to v.
IntPtr(set, v) == [set |-> set, v |-> v]

\* ResponseOpRange{Operation, Range, RoomIDs} and ResponseOpSingle{Operation,
\* Index, RoomID} as values of the ResponseOp interface.
RangeOp(op, range, ids) ==
    [kind |-> "range", Operation |-> op, Range |-> range, RoomIDs |-> ids]
SingleOp(op, index, roomID) ==
    [kind |-> "single", Operation |-> op, Index |-> index, RoomID |-> roomID]

\* A JSON object with no field; a JSON object is a function of its fields.
NoFields == [f \in {} |-> f]
Field(name, present, value) == IF present THEN (name :> value) ELSE NoFields

\* Mutant: the index is an int with omitempty, so index 0 is left out.
MarshalOpOmitsZeroIndex(o) ==
    IF o.kind = "range"
        THEN Field("op", TRUE, o.Operation) @@ Field("range", TRUE, o.Range)
             @@ Field("room_ids", Len(o.RoomIDs.elems) > 0, o.RoomIDs.elems)
        ELSE Field("op", TRUE, o.Operation)
             @@ Field("index", o.Index.set /\ o.Index.v # 0, o.Index.v)
             @@ Field("room_id", o.RoomID # "", o.RoomID)

\* encoding/json on the struct tags, lines 550-554 and 567-571: op is always
\* written; range is an array, which omitempty never leaves out; room_ids is
\* left out when nil or empty, index when nil, room_id when "".
MarshalOp(o) ==
    IF o.kind = "range"
        THEN Field("op", TRUE, o.Operation) @@ Field("range", TRUE, o.Range)
             @@ Field("room_ids", Len(o.RoomIDs.elems) > 0, o.RoomIDs.elems)
        ELSE Field("op", TRUE, o.Operation)
             @@ Field("index", o.Index.set, o.Index.v)
             @@ Field("room_id", o.RoomID # "", o.RoomID)

\* ResponseList.Ops has omitempty: no "ops" field for a list without ops.
MarshalOps(ops) ==
    Field("ops", Len(ops) > 0, [i \in 1..Len(ops) |-> MarshalOp(ops[i])])

\* The value of a field, or the zero value of the Go field it is decoded into.
Get(js, name, zero) == IF name \in DOMAIN js THEN js[name] ELSE zero

\* lines 523-535: a range op when the JSON has a range field, else a single op.
UnmarshalOp(js) ==
    IF "range" \in DOMAIN js
        THEN RangeOp(Get(js, "op", ""), js["range"],
                     IF "room_ids" \in DOMAIN js
                         THEN Slice(FALSE, js["room_ids"])
                         ELSE Slice(TRUE, <<>>))
        ELSE SingleOp(Get(js, "op", ""),
                      IF "index" \in DOMAIN js
                          THEN IntPtr(TRUE, js["index"])
                          ELSE IntPtr(FALSE, 0),
                      Get(js, "room_id", ""))

\* lines 520-537: the ops of a list, in the order of the JSON array.
UnmarshalOps(js) ==
    LET arr == Get(js, "ops", <<>>)
    IN  [i \in 1..Len(arr) |-> UnmarshalOp(arr[i])]

\* The ops a response may carry.
RangeOps ==
    {RangeOp(op, range, ids) :
        op \in {"SYNC", "INVALIDATE"},
        range \in {<<0, 0>>, <<0, 1>>},
        ids \in {Slice(TRUE, <<>>), Slice(FALSE, <<>>), Slice(FALSE, <<"!c">>)}}
SingleOps ==
    {SingleOp(op, index, roomID) :
        op \in {"INSERT", "DELETE"},
        index \in {IntPtr(FALSE, 0), IntPtr(TRUE, 0), IntPtr(TRUE, 1)},
        roomID \in {"", "!c"}}
OpLists == UNION {[1..n -> RangeOps \cup SingleOps] : n \in 0..MaxOps}

\* JSON ops that Marshal never writes: both a range and an index, or neither.
ForeignOps ==
    {Field("op", TRUE, "SYNC") @@ Field("range", TRUE, <<0, 0>>) @@ Field("index", TRUE, 0),
     Field("op", TRUE, "DELETE"),
     Field("index", TRUE, 1) @@ Field("room_id", TRUE, "!c")}

WireInit ==
    wire = [stage |-> "start", ops |-> <<>>, json |-> NoFields, out |-> <<>>,
            foreign |-> FALSE]

\* The server builds the list of a response.
NewResponse(ops) ==
    /\ wire.stage = "start"
    /\ wire' = [wire EXCEPT !.stage = "built", !.ops = ops]
    /\ UNCHANGED notWireVars

\* json.Marshal(response)
MarshalJSON ==
    /\ wire.stage = "built"
    /\ wire' = [wire EXCEPT !.stage = "encoded", !.json = MarshalOps(wire.ops)]
    /\ UNCHANGED notWireVars

\* A response body that some other writer made arrives.
ReceiveJSON(op) ==
    /\ wire.stage = "start"
    /\ wire' = [wire EXCEPT !.stage = "encoded", !.json = Field("ops", TRUE, <<op>>),
                            !.foreign = TRUE]
    /\ UNCHANGED notWireVars

\* Response.UnmarshalJSON, lines 499-542.
UnmarshalJSON ==
    /\ wire.stage = "encoded"
    /\ wire' = [wire EXCEPT !.stage = "decoded", !.out = UnmarshalOps(wire.json)]
    /\ UNCHANGED notWireVars

WireNext ==
    \/ \E ops \in OpLists : NewResponse(ops)
    \/ MarshalJSON
    \/ \E op \in ForeignOps : ReceiveJSON(op)
    \/ UnmarshalJSON

\* ------------------------------------------------ extensions: account data

\* A nil *AccountDataResponse, and &AccountDataResponse{Global, Rooms}; Rooms is
\* a map from room ids to events, nil or not.
NilResponse == [isNil |-> TRUE, Global |-> Slice(TRUE, <<>>),
                Rooms |-> [isNil |-> TRUE, m |-> NoFields]]
AccountDataResponse(global, rooms) == [isNil |-> FALSE, Global |-> global, Rooms |-> rooms]
NilRooms == [isNil |-> TRUE, m |-> NoFields]
RoomsMap(m) == [isNil |-> FALSE, m |-> m]

\* state.Storage: the account data stored for the user in every room.
StoredRoomData == [r \in RoomIDs |-> IF r = "!a" THEN <<"tag1">> ELSE <<>>]

\* caches.Update: the updates that reach the extension.
AccountDataUpdate(events) == [type |-> "AccountDataUpdate", RoomID |-> "", AccountData |-> events]
RoomAccountDataUpdate(r, events) ==
    [type |-> "RoomAccountDataUpdate", RoomID |-> r, AccountData |-> events]
RoomUpdate(r) == [type |-> "RoomUpdate", RoomID |-> r, AccountData |-> <<>>]
OtherUpdate == [type |-> "DeviceDataUpdate", RoomID |-> "", AccountData |-> <<>>]
NoUpdate == [type |-> "", RoomID |-> "", AccountData |-> <<>>]

Updates ==
    {AccountDataUpdate(<<>>), AccountDataUpdate(<<"g2">>),
     RoomAccountDataUpdate("!a", <<"tag2">>), RoomUpdate("!a"), RoomUpdate("!b"),
     OtherUpdate}

AcctInit ==
    acct = [initialDone |-> FALSE, global |-> <<>>, res |-> NilResponse,
            answered |-> "none", update |-> NoUpdate]

\* ProcessLiveAccountData, lines 42-73. storeErr: store.AccountDatas fails.
ProcessLiveAccountData(up, updateWillReturnResponse, storeErr) ==
    CASE up.type = "AccountDataUpdate" ->
            AccountDataResponse(Slice(FALSE, up.AccountData), NilRooms)
      [] up.type = "RoomAccountDataUpdate" ->
            AccountDataResponse(Slice(TRUE, <<>>), RoomsMap(up.RoomID :> up.AccountData))
      [] up.type = "RoomUpdate" ->
            IF updateWillReturnResponse /\ ~storeErr
                THEN AccountDataResponse(Slice(TRUE, <<>>),
                                         RoomsMap(up.RoomID :> StoredRoomData[up.RoomID]))
                ELSE NilResponse
      [] OTHER -> NilResponse

\* lines 84-94: the stored account data of the requested rooms, by room.
RoomsOf(roomIDs, storeErr) ==
    IF roomIDs = {} \/ storeErr
        THEN NilRooms
        ELSE RoomsMap([r \in {x \in roomIDs : Len(StoredRoomData[x]) > 0} |->
                          StoredRoomData[r]])

\* Mutant: the stored global account data is sent with every response.
GlobalOfAlways(isInitial, stored, storeErr) ==
    IF ~storeErr THEN Slice(FALSE, stored) ELSE Slice(TRUE, <<>>)

\* lines 96-103: the stored global account data, on the initial request only.
GlobalOf(isInitial, stored, storeErr) ==
    IF isInitial /\ ~storeErr THEN Slice(FALSE, stored) ELSE Slice(TRUE, <<>>)

\* ProcessAccountData, lines 75-105.
ProcessAccountData(roomIDs, isInitial, stored, roomsErr, globalErr) ==
    AccountDataResponse(GlobalOf(isInitial, stored, globalErr), RoomsOf(roomIDs, roomsErr))

\* The user stores a global account data event.
PutGlobalAccountData(ev) ==
    /\ Len(acct.global) < MaxStored
    /\ acct' = [acct EXCEPT !.global = Append(@, ev)]
    /\ UNCHANGED notAcctVars

\* A request on the connection: the first one is the initial one.
AccountDataRequest(roomIDs, roomsErr, globalErr) ==
    /\ acct' = [acct EXCEPT
                    !.initialDone = TRUE,
                    !.res = ProcessAccountData(roomIDs, ~acct.initialDone, acct.global,
                                               roomsErr, globalErr),
                    !.answered = IF acct.initialDone THEN "request" ELSE "initial",
                    !.update = NoUpdate]
    /\ UNCHANGED notAcctVars

\* A live update reaches the connection.
AccountDataLive(up, updateWillReturnResponse, storeErr) ==
    /\ acct.initialDone
    /\ acct' = [acct EXCEPT
                    !.res = ProcessLiveAccountData(up, updateWillReturnResponse, storeErr),
                    !.answered = "live",
                    !.update = up]
    /\ UNCHANGED notAcctVars

AcctNext ==
    \/ \E ev \in {"g1", "g3"} : PutGlobalAccountData(ev)
    \/ \E roomIDs \in SUBSET RoomIDs, re \in BOOLEAN, ge \in BOOLEAN :
            AccountDataRequest(roomIDs, re, ge)
    \/ \E up \in Updates, w \in BOOLEAN, e \in BOOLEAN : AccountDataLive(up, w, e)

\* ------------------------------------------------- sqlutil: WithTransaction

\* How the callback fn ends: it returns nil, returns an error, panics with a
\* value, or panics with nil.
FnOutcomes == {"nil", "error", "panic", "panic(nil)"}

TxInit ==
    tx = [db |-> 0, calls |-> <<>>, outcome |-> "", wrote |-> 0, ret |-> "nil",
          propagated |-> FALSE]

\* line 48: err after err = fn(txn); a panic leaves the assignment undone.
FnErr(outcome) == IF outcome = "error" THEN "fn: failed" ELSE "nil"

\* line 29: recover(). Whether recover() returns nil for panic(nil) depends on
\* the build: nil before Go 1.21 and with GODEBUG=panicnil=1, a
\* *runtime.PanicNilError otherwise.
Recover(outcome, nilPanicIsNil) ==
    CASE outcome = "panic" -> "boom"
      [] outcome = "panic(nil)" -> IF nilPanicIsNil THEN "nil" ELSE "PanicNilError"
      [] OTHER -> "nil"

\* lines 30-36: a recovered panic becomes the error, unless there is one.
ErrAfterRecover(err, panicErr) ==
    IF err = "nil" /\ panicErr # "nil" THEN "panic: recovered" ELSE err

\* Mutant: the error of Commit or Rollback replaces the callback's.
ErrAfterEndPrefersTxn(err, txnErr) ==
    IF txnErr # "nil" THEN "WithTransaction failed to commit/rollback" ELSE err

\* lines 37-45: the error returned after Commit or Rollback gave txnErr.
ErrAfterEnd(err, txnErr) ==
    IF txnErr # "nil" /\ err = "nil"
        THEN "WithTransaction failed to commit/rollback"
        ELSE err

\* WithTransaction(db, fn), lines 22-50. The callback writes v in the
\* transaction; endErr: Commit or Rollback fails.
WithTransaction(beginErr, outcome, v, endErr, nilPanicIsNil) ==
    LET err == ErrAfterRecover(FnErr(outcome), Recover(outcome, nilPanicIsNil))
        txnErr == IF endErr THEN "txn: failed" ELSE "nil"
    IN  /\ tx' = IF beginErr
                    THEN [tx EXCEPT !.calls = <<"Begin">>, !.outcome = "", !.wrote = 0,
                                    !.ret = "WithTransaction.Begin", !.propagated = FALSE]
                    ELSE [db |-> IF err = "nil" /\ ~endErr THEN v ELSE tx.db,
                          calls |-> <<"Begin", "fn",
                                      IF err # "nil" THEN "Rollback" ELSE "Commit">>,
                          outcome |-> outcome,
                          wrote |-> v,
                          ret |-> ErrAfterEnd(err, txnErr),
                          propagated |-> FALSE]
        /\ UNCHANGED notTxVars

TxNext ==
    \E beginErr \in BOOLEAN, outcome \in FnOutcomes, v \in 1..NumWrites,
       endErr \in BOOLEAN, nilPanicIsNil \in BOOLEAN :
        WithTransaction(beginErr, outcome, v, endErr, nilPanicIsNil)

\* ------------------------------------------------------- store: sessions

Clients == 1..NumClients
Devices == {"dev1", "dev2"}
SinceTokens == {"s1"}
UserIDs == {"@u1"}

\* A row of syncv3_sessions_v2devices, or the absence of one. by is the client
\* whose open transaction inserted the row, 0 once the row is committed.
NoRow == [present |-> FALSE, since |-> "", user_id |-> "", by |-> 0]
NewRow(c) == [present |-> TRUE, since |-> "", user_id |-> "", by |-> c]

\* *sync3.Session as NewSession fills it, and the nil pointer.
NilSession == [nil |-> TRUE, ID |-> 0, DeviceID |-> "", V2Since |-> "", UserID |-> ""]
Session(id, deviceID, since, userID) ==
    [nil |-> FALSE, ID |-> id, DeviceID |-> deviceID, V2Since |-> since,
     UserID |-> userID]

\* A client outside NewSession.
IdleProc == [pc |-> "idle", dev |-> "", id |-> 0, err |-> "nil", session |-> NilSession]

\* No call of Sessions.Session yet; afterwards the last call's arguments and
\* the (session, err) it returned.
NoLookup == [sessionID |-> 0, deviceID |-> "", session |-> NilSession, err |-> "nil"]

SessInit ==
    sess = [devices |-> [d \in Devices |-> NoRow],
            sessions |-> {},
            nextID |-> 1,
            procs |-> [c \in Clients |-> IdleProc],
            got |-> NoLookup]

\* The rows a statement of client c sees under READ COMMITTED: the committed
\* ones and those of its own transaction.
Visible(row, c) == row.present /\ row.by \in {0, c}

\* NewSession(deviceID), lines 57-69: WithTransaction begins the transaction
\* and fn runs INSERT INTO syncv3_sessions ... RETURNING session_id. nextval is
\* never rolled back. No other statement reads the uncommitted row, so the two
\* are one step.
NSInsertSession(c, deviceID, fail) ==
    /\ sess.procs[c].pc = "idle"
    /\ \A d \in Clients : d < c => sess.procs[d].pc # "idle"
    /\ sess.nextID <= MaxSessions
    /\ sess' = IF fail
                 THEN [sess EXCEPT !.procs[c] =
                          [IdleProc EXCEPT !.pc = "end", !.dev = deviceID,
                                           !.err = "sessions: insert failed"]]
                 ELSE [sess EXCEPT !.nextID = @ + 1,
                                   !.sessions = @ \cup {[session_id |-> sess.nextID,
                                                         device_id |-> deviceID,
                                                         by |-> c]},
                                   !.procs[c] =
                                       [IdleProc EXCEPT !.pc = "device", !.dev = deviceID,
                                                        !.id = sess.nextID]]
    /\ UNCHANGED notSessVars

\* The device table after INSERT ... DO UPDATE SET since = '' in place of DO
\* NOTHING.
InsertDeviceClobbers(devices, deviceID, c) ==
    [devices EXCEPT ![deviceID] = IF devices[deviceID].present
                                     THEN [@ EXCEPT !.since = ""]
                                     ELSE NewRow(c)]

\* lines 72-76: the device table after INSERT ... VALUES(deviceID, '', '') ON
\* CONFLICT (device_id) DO NOTHING by client c.
InsertDevice(devices, deviceID, c) ==
    [devices EXCEPT ![deviceID] = IF devices[deviceID].present THEN @ ELSE NewRow(c)]

\* lines 72-90: the insert waits while another open transaction holds an
\* uncommitted row for the same device id; RowsAffected is 1 when the row was
\* inserted, and then the session has no since token.
NSInsertDevice(c, fail) ==
    LET p == sess.procs[c]
        row == sess.devices[p.dev]
        ra == IF row.present THEN 0 ELSE 1
    IN  /\ p.pc = "device"
        /\ ~(row.present /\ row.by \notin {0, c})
        /\ sess' = IF fail
                     THEN [sess EXCEPT !.procs[c].pc = "end",
                                       !.procs[c].err = "v2devices: insert failed"]
                     ELSE [sess EXCEPT !.devices = InsertDevice(@, p.dev, c),
                                       !.procs[c].pc = IF ra = 1 THEN "end" ELSE "select",
                                       !.procs[c].session =
                                           IF ra = 1 THEN Session(p.id, p.dev, "", "")
                                                     ELSE @]
        /\ UNCHANGED notSessVars

\* lines 92-106: SELECT since, user_id ... WHERE device_id = deviceID.
NSSelect(c, fail) ==
    LET p == sess.procs[c]
        row == sess.devices[p.dev]
    IN  /\ p.pc = "select"
        /\ sess' = IF fail \/ ~Visible(row, c)
                     THEN [sess EXCEPT !.procs[c].pc = "end",
                                       !.procs[c].err = "v2devices: select failed"]
                     ELSE [sess EXCEPT !.procs[c].pc = "end",
                                       !.procs[c].session =
                                           Session(p.id, p.dev, row.since, row.user_id)]
        /\ UNCHANGED notSessVars

\* The tables after the transaction of client c ends: its rows are committed,
\* or dropped.
EndDevices(devices, c, commit) ==
    [d \in Devices |->
        IF devices[d].present /\ devices[d].by = c
            THEN IF commit THEN [devices[d] EXCEPT !.by = 0] ELSE NoRow
            ELSE devices[d]]
EndSessions(sessions, c, commit) ==
    {IF r.by = c THEN [r EXCEPT !.by = 0] ELSE r :
        r \in {q \in sessions : q.by # c \/ commit}}

\* The values NewSession returns when its transaction ends, lines 107-108.
NSReturn(p, endErr) ==
    [session |-> p.session,
     err |-> ErrAfterEnd(p.err, IF endErr THEN "txn: failed" ELSE "nil")]

\* lines 107-108 and WithTransaction's deferred function: Commit when fn gave
\* no error, Rollback otherwise; NewSession returns NSReturn(p, endErr).
NSEnd(c, endErr) ==
    LET p == sess.procs[c]
        commit == p.err = "nil" /\ ~endErr
    IN  /\ p.pc = "end"
        /\ sess' = [sess EXCEPT !.devices = EndDevices(@, c, commit),
                                !.sessions = EndSessions(@, c, commit),
                                !.procs[c] = IdleProc]
        /\ UNCHANGED notSessVars

\* UpdateDeviceSince(deviceID, since), lines 145-148: one UPDATE outside any
\* transaction; it sees committed rows only.
UpdateDeviceSince(deviceID, since) ==
    /\ sess' = [sess EXCEPT !.devices[deviceID] =
                    IF Visible(@, 0) THEN [@ EXCEPT !.since = since] ELSE @]
    /\ UNCHANGED notSessVars

\* UpdateUserIDForDevice(deviceID, userID), lines 150-153.
UpdateUserIDForDevice(deviceID, userID) ==
    /\ sess' = [sess EXCEPT !.devices[deviceID] =
                    IF Visible(@, 0) THEN [@ EXCEPT !.user_id = userID] ELSE @]
    /\ UNCHANGED notSessVars

\* The session ids a client may ask for; the sequence has given out those
\* below nextID.
SessionIDs == 1..MaxSessions

\* The rows of SELECT ... WHERE session_id = $1 with the device condition
\* left out.
RowsOfAnyDevice(sessions, sessionID, deviceID) ==
    {r \in sessions : r.by = 0 /\ r.session_id = sessionID}

\* lines 114-117: the committed rows of SELECT ... FROM syncv3_sessions ...
\* WHERE session_id = $1 AND syncv3_sessions.device_id = $2.
RowsOf(sessions, sessionID, deviceID) ==
    {r \in sessions : r.by = 0 /\ r.session_id = sessionID /\ r.device_id = deviceID}

\* Session(sessionID, deviceID), lines 109-129: what it returns. No row is
\* (nil, nil); the LEFT JOIN gives NULL since and user_id when the device has
\* no committed row, which does not scan into a string; fail is any other
\* database error.
SessionResult(sessions, devices, sessionID, deviceID, fail) ==
    LET row == devices[deviceID]
    IN  CASE fail -> [session |-> NilSession, err |-> "db: failed"]
          [] ~fail /\ RowsOf(sessions, sessionID, deviceID) = {} ->
                [session |-> NilSession, err |-> "nil"]
          [] ~fail /\ RowsOf(sessions, sessionID, deviceID) # {} /\ ~Visible(row, 0) ->
                [session |-> NilSession, err |-> "scan: NULL"]
          [] OTHER ->
                [session |-> Session(sessionID, deviceID, row.since, row.user_id),
                 err |-> "nil"]

\* A call of Session(sessionID, deviceID), one statement outside any
\* transaction.
LookupSession(sessionID, deviceID, fail) ==
    LET res == SessionResult(sess.sessions, sess.devices, sessionID, deviceID, fail)
    IN  /\ sess' = [sess EXCEPT !.got = [sessionID |-> sessionID,
                                        deviceID |-> deviceID,
                                        session |-> res.session,
                                        err |-> res.err]]
        /\ UNCHANGED notSessVars

\* NewSession calls and Session lookups.
LookupNext ==
    \/ \E c \in Clients, d \in Devices, fail \in BOOLEAN : NSInsertSession(c, d, fail)
    \/ \E c \in Clients, fail \in BOOLEAN : NSInsertDevice(c, fail)
    \/ \E c \in Clients, fail \in BOOLEAN : NSSelect(c, fail)
    \/ \E c \in Clients, endErr \in BOOLEAN : NSEnd(c, endErr)
    \/ \E i \in SessionIDs, d \in Devices, fail \in BOOLEAN : LookupSession(i, d, fail)

SessNext ==
    \/ \E c \in Clients, d \in Devices, fail \in BOOLEAN : NSInsertSession(c, d, fail)
    \/ \E c \in Clients, fail \in BOOLEAN : NSInsertDevice(c, fail)
    \/ \E c \in Clients, fail \in BOOLEAN : NSSelect(c, fail)
    \/ \E c \in Clients, endErr \in BOOLEAN : NSEnd(c, endErr)
    \/ \E d \in Devices, s \in SinceTokens : UpdateDeviceSince(d, s)
    \/ \E d \in Devices, u \in UserIDs : UpdateUserIDForDevice(d, u)

\* -------------------------------------------------------- store: filters

\* streams.Request values a client sends, by their content.
Requests == {"reqA", "reqB"}

\* json.Marshal(req) and json.Unmarshal(j, &req) of a request, lines 158 and
\* 176: the stored text is the request's encoding and decodes to it.
MarshalRequest(req) == <<"json", req>>
UnmarshalRequest(j) == j[2]

NoFilterCall == [sessionID |-> 0, filterID |-> 0, req |-> "<nil>", err |-> "nil"]

FiltInit ==
    filt = [filters |-> {},
            nextID |-> 1,
            ins |-> [filterID |-> 0, err |-> "nil"],
            got |-> NoFilterCall]

\* InsertFilter(sessionID, req), lines 157-164: the row gets the next value of
\* syncv3_filter_id_seq, which is returned; a failed statement returns the
\* error and stores nothing.
InsertFilter(sessionID, req, fail) ==
    /\ filt.nextID <= MaxFilters
    /\ filt' = IF fail
                 THEN [filt EXCEPT !.ins = [filterID |-> 0, err |-> "db: failed"]]
                 ELSE [filt EXCEPT !.filters = @ \cup {[filter_id |-> filt.nextID,
                                                        session_id |-> sessionID,
                                                        req_json |-> MarshalRequest(req)]},
                                   !.nextID = @ + 1,
                                   !.ins = [filterID |-> filt.nextID, err |-> "nil"]]
    /\ UNCHANGED notFiltVars

\* The rows of SELECT req_json ... WHERE filter_id = $2 with the session
\* condition left out.
FilterRowsOfAnySession(filters, sessionID, filterID) ==
    {r \in filters : r.filter_id = filterID}

\* line 171: the rows of SELECT req_json FROM syncv3_filters WHERE
\* session_id = $1 AND filter_id = $2.
FilterRows(filters, sessionID, filterID) ==
    {r \in filters : r.session_id = sessionID /\ r.filter_id = filterID}

\* Filter(sessionID, filterID), lines 168-180: what it returns; no row is
\* sql.ErrNoRows, which is returned as the error.
FilterResult(filters, sessionID, filterID, fail) ==
    LET rows == FilterRows(filters, sessionID, filterID)
    IN  CASE fail -> [req |-> "<nil>", err |-> "db: failed"]
          [] ~fail /\ rows = {} -> [req |-> "<nil>", err |-> "sql: no rows in result set"]
          [] OTHER -> [req |-> UnmarshalRequest((CHOOSE r \in rows : TRUE).req_json),
                       err |-> "nil"]

\* A call of Filter(sessionID, filterID).
Filter(sessionID, filterID, fail) ==
    LET res == FilterResult(filt.filters, sessionID, filterID, fail)
    IN  /\ filt' = [filt EXCEPT !.got = [sessionID |-> sessionID,
                                        filterID |-> filterID,
                                        req |-> res.req,
                                        err |-> res.err]]
        /\ UNCHANGED notFiltVars

\* The filter ids a client may ask for.
FilterIDs == 1..MaxFilters

FiltNext ==
    \/ \E i \in SessionIDs, req \in Requests, fail \in BOOLEAN : InsertFilter(i, req, fail)
    \/ \E i \in SessionIDs, f \in FilterIDs, fail \in BOOLEAN : Filter(i, f, fail)

\* --------------------------------------------------------- pubsub: v2

\* The payload types onMessage knows, lines 28-119, and one it does not.
V2Types ==
    {"V2Receipt", "V2Initialise", "V2Accumulate", "V2AccountData", "V2InviteRoom",
     "V2LeaveRoom", "V2UnreadCounts", "V2InitialSyncComplete", "V2DeviceData",
     "V2Typing", "V2DeviceMessages", "V2ExpiredToken"}
OtherTypes == {"V3Other"}

\* A published payload: its dynamic type and its number on the channel.
Payload(type, n) == [type |-> type, n |-> n]

V2Init == v2 = [published |-> <<>>, next |-> 1, calls |-> <<>>, busy |-> FALSE]

\* The type switch with the typing and receipt cases exchanged.
ReceiverMethodSwapped(type) ==
    CASE type = "V2Receipt" -> "OnTyping"
      [] type = "V2Typing" -> "OnReceipt"
      [] OTHER -> "none"

\* onMessage, lines 138-165: the receiver method the type switch calls, "none"
\* in the default case.
ReceiverMethod(type) ==
    CASE type = "V2Receipt" -> "OnReceipt"
      [] type = "V2Initialise" -> "Initialise"
      [] type = "V2Accumulate" -> "Accumulate"
      [] type = "V2AccountData" -> "OnAccountData"
      [] type = "V2InviteRoom" -> "OnInvite"
      [] type = "V2LeaveRoom" -> "OnLeftRoom"
      [] type = "V2UnreadCounts" -> "OnUnreadCounts"
      [] type = "V2InitialSyncComplete" -> "OnInitialSyncComplete"
      [] type = "V2DeviceData" -> "OnDeviceData"
      [] type = "V2Typing" -> "OnTyping"
      [] type = "V2DeviceMessages" -> "OnDeviceMessages"
      [] type = "V2ExpiredToken" -> "OnExpiredToken"
      [] OTHER -> "none"

\* A publisher puts a payload on the v2 channel.
Publish(type) ==
    /\ Len(v2.published) < MaxPayloads
    /\ v2' = [v2 EXCEPT !.published =
                  Append(@, Payload(type, Len(v2.published) + 1))]
    /\ UNCHANGED notV2Vars

\* Listen, line 169, and onMessage, lines 137-166: the listener hands the
\* channel's next payload to onMessage once the call for the one before has
\* returned; onMessage calls the receiver method of the payload's type.
OnMessage ==
    /\ ~v2.busy
    /\ v2.next <= Len(v2.published)
    /\ LET p == v2.published[v2.next]
           method == ReceiverMethod(p.type)
       IN  v2' = [v2 EXCEPT !.next = @ + 1,
                            !.calls = IF method = "none"
                                         THEN @
                                         ELSE Append(@, [method |-> method, p |-> p]),
                            !.busy = method # "none"]
    /\ UNCHANGED notV2Vars

\* The receiver method returns, and with it onMessage.
OnMessageReturn ==
    /\ v2.busy
    /\ v2' = [v2 EXCEPT !.busy = FALSE]
    /\ UNCHANGED notV2Vars

V2Next ==
    \/ \E type \in V2Types \cup OtherTypes : Publish(type)
    \/ OnMessage
    \/ OnMessageReturn

\* ---------------------------------------------------- extensions: typing

\* The user's rooms in the lists' sort order (by name), as in
\* TestTypingRespectsExtensionScopeWithOmittedFields.
TypingRooms == <<"!r0", "!r1", "!r2">>
TypingRoomIDs == {TypingRooms[i] : i \in 1..Len(TypingRooms)}

\* The lists of the request and the ranges a request gives them.
ListNames == {"r0", "r1"}
ListRanges ==
    {[r0 |-> <<0, 0>>, r1 |-> <<1, 1>>], [r0 |-> <<0, 1>>, r1 |-> <<1, 1>>]}

\* extensions.Core's lists and rooms; rooms may be left out of the request
\* (omitted), which is not the same as naming no room.
ExtLists == {{}, {"r0"}, {"*"}}
ExtRooms ==
    {[omitted |-> TRUE, ids |-> {}]} \cup
    {[omitted |-> FALSE, ids |-> ids] : ids \in {{}, {"!r1"}, {"!r2"}}}
Subscriptions == {{}, {"!r2"}}

NoTypingResponse == [kind |-> "none", rooms |-> {}, update |-> [room |-> "", n |-> 0]]

TypInit ==
    typ = [typing |-> [r \in TypingRoomIDs |-> 0],
           n |-> 0,
           connected |-> FALSE,
           connectedAt |-> 0,
           lists |-> CHOOSE l \in ListRanges : TRUE,
           subs |-> {},
           ext |-> [lists |-> {}, rooms |-> [omitted |-> FALSE, ids |-> {}]],
           queue |-> <<>>,
           res |-> NoTypingResponse]

\* The rooms in the visible range of list name.
VisibleRooms(lists, name) ==
    {TypingRooms[i + 1] : i \in lists[name][1]..lists[name][2]}

\* Every room is in scope, whatever the extension names.
RoomInScopeAlways(roomID, ext, lists, subs) == TRUE

\* A room qualifies for the extension when a list the extension names ("*":
\* every list) has it in its visible range, or the extension's rooms name it,
\* or rooms is left out and the room is a room subscription.
RoomInScope(roomID, ext, lists, subs) ==
    \/ \E name \in ListNames :
        /\ name \in ext.lists \/ "*" \in ext.lists
        /\ roomID \in VisibleRooms(lists, name)
    \/ ~ext.rooms.omitted /\ roomID \in ext.rooms.ids
    \/ ext.rooms.omitted /\ roomID \in subs

\* The initial response carries no typing at all.
ProcessInitialNothing(typing, ext, lists, subs) == {}

\* The typing block of the answer to the initial request: the stored typing
\* event of every room in scope that has one.
ProcessInitial(typing, ext, lists, subs) ==
    {[room |-> r, n |-> typing[r]] :
        r \in {q \in TypingRoomIDs : typing[q] # 0 /\ RoomInScope(q, ext, lists, subs)}}

\* The typing block for a live typing update.
AppendLive(update, ext, lists, subs) ==
    IF RoomInScope(update.room, ext, lists, subs) THEN {update} ELSE {}

\* The poller of some connected device hands a typing notification for roomID
\* to the proxy: GlobalCache.OnEphemeralEvent stores it as the room's typing
\* event, part_002 lines 335-336, and an existing connection gets a live
\* update.
OnTyping(roomID) ==
    /\ typ.n < MaxTyping
    /\ typ' = [typ EXCEPT !.n = @ + 1,
                          !.typing[roomID] = typ.n + 1,
                          !.queue = IF typ.connected
                                       THEN Append(@, [room |-> roomID, n |-> typ.n + 1])
                                       ELSE @]
    /\ UNCHANGED notTypVars

\* The connection's initial request (no pos) with its lists, subscriptions
\* and typing extension, and the response to it.
TypingInitialRequest(lists, subs, ext) ==
    /\ ~typ.connected
    /\ typ' = [typ EXCEPT !.connected = TRUE,
                          !.connectedAt = typ.n,
                          !.lists = lists,
                          !.subs = subs,
                          !.ext = ext,
                          !.res = [kind |-> "initial",
                                   rooms |-> ProcessInitial(typ.typing, ext, lists, subs),
                                   update |-> NoTypingResponse.update]]
    /\ UNCHANGED notTypVars

\* A later request (with pos), which may move the lists' ranges, answered
\* with the next live update.
TypingLiveRequest(lists) ==
    /\ typ.connected
    /\ typ.queue # <<>>
    /\ typ' = [typ EXCEPT !.lists = lists,
                          !.queue = Tail(@),
                          !.res = [kind |-> "live",
                                   rooms |-> AppendLive(Head(typ.queue), typ.ext, lists,
                                                        typ.subs),
                                   update |-> Head(typ.queue)]]
    /\ UNCHANGED notTypVars

TypNext ==
    \/ \E roomID \in TypingRoomIDs : OnTyping(roomID)
    \/ \E lists \in ListRanges, subs \in Subscriptions, l \in ExtLists, r \in ExtRooms :
        TypingInitialRequest(lists, subs, [lists |-> l, rooms |-> r])
    \/ \E lists \in ListRanges : TypingLiveRequest(lists)

\* An empty LoadRooms result.
NoResult == [r \in RoomIDs |-> NoCopy]

SnapInit ==
    snap = [pc |-> "idle", ids |-> <<>>, i |-> 1, result |-> NoResult, atLock |-> NoResult]

\* What LoadJoinedRooms has returned before its first call.
NoReturn == [pos |-> 0, rooms |-> "nil", err |-> FALSE]

\* An empty events table, nothing dispatched, no call made.
JoinedInit ==
    ljr = [log |-> <<>>, applied |-> 0, pc |-> "idle", pos |-> 0, ids |-> {},
           ret |-> NoReturn]

\* A call that has not been made.
NoChunkCall == [pc |-> "idle", i |-> 0, chunks |-> <<>>, more |-> FALSE]

ChunkInit == chk = [n |-> 1, m |-> 1, entries |-> <<>>, c1 |-> NoChunkCall, c2 |-> NoChunkCall]

Init ==
    /\ GateInit /\ CacheInit /\ ConnInit /\ WireInit /\ AcctInit /\ TxInit
    /\ SessInit /\ FiltInit /\ V2Init /\ TypInit /\ SnapInit /\ JoinedInit
    /\ ChunkInit

\* Calls to WithTransaction, one after the other.
TxSpec == Init /\ [][TxNext]_vars

\* NewSession calls of several clients, interleaved with each other and with
\* updates of the device rows.
SessSpec == Init /\ [][SessNext]_vars

\* Session lookups of any id under any device, interleaved with NewSession
\* calls.
LookupSpec == Init /\ [][LookupNext]_vars

\* InsertFilter and Filter calls of any session.
FiltSpec == Init /\ [][FiltNext]_vars

\* Publishers on the v2 channel and the subscriber's listener.
V2Spec == Init /\ [][V2Next]_vars

\* One connection with the typing extension, and typing notifications before
\* and after its initial request.
TypSpec == Init /\ [][TypNext]_vars

\* One connection's account data extension over requests and live updates.
AcctSpec == Init /\ [][AcctNext]_vars

\* Responses marshalled and unmarshalled.
WireSpec == Init /\ [][WireNext]_vars

Next == GateNext

\* The gate under every interleaving of its callers and of the bus handlers.
Spec == Init /\ [][Next]_vars

\* The Go scheduler runs every runnable goroutine, so a caller that can publish
\* or receive does so; and the bus eventually delivers a V2InitialSyncComplete or
\* a V2ExpiredToken for a poller that was asked to start.
Deliver(p) == OnInitialSyncComplete(p) \/ OnExpiredToken(p)

GateFairness ==
    /\ \A c \in Callers : WF_vars(Notify(c)) /\ WF_vars(Recv(c))
    /\ \A p \in PollerIDs : WF_vars(Deliver(p))

GateLive == Spec /\ GateFairness

\* ------------------------------------------------ cache: hero specification

Memberships == {"join", "invite", "leave", "ban"}

\* m.room.member events of the given rooms, users, memberships and previous
\* memberships.
MemberEvents(rooms, users, memberships, prevs, names) ==
    {[EventData(r, "m.room.member", u) EXCEPT
          !.membership = m, !.prevMembership = pm, !.displayname = n] :
        r \in rooms, u \in users, m \in memberships, pm \in prevs, n \in names}

\* A Startup argument that gives room r with the given heroes and children.
StartupWith(r, heroes, children, upgraded) ==
    [x \in RoomIDs |->
        IF x = r
            THEN [md |-> [NewMetadata(r) EXCEPT !.Heroes = heroes,
                                              !.LastMessageTimestamp = 2,
                                              !.UpgradedRoomID = upgraded],
                  children |-> children]
            ELSE [md |-> NilMeta, children |-> {}]]

\* The first k users, as heroes loaded from the database.
FirstHeroes(k) == [i \in 1..k |-> Hero(UserPool[i], "")]

HeroStartups ==
    {StartupWith("!a", FirstHeroes(k), {}, NilStr) : k \in {0, HeroLimit - 1}}

HeroEvents == MemberEvents({"!a"}, Senders, Memberships, Memberships \cup {""}, {""})

HeroNext ==
    \/ \E m \in HeroStartups : Startup(m)
    \/ \E ed \in HeroEvents : OnNewEvent(ed)

\* The cache fed with the membership events of NumSenders users in one room.
HeroSpec == Init /\ [][HeroNext]_vars

\* ------------------------------------------------ cache: copy specification

CopyStartups == {StartupWith("!a", FirstHeroes(1), {}, "!old")}

CopyEvents ==
    {[EventData("!a", "m.space.child", "!b") EXCEPT !.viaIsArray = v] : v \in BOOLEAN}
    \cup {[EventData("!a", "m.room.tombstone", "") EXCEPT !.replacement_room = x] :
            x \in {"", "!b"}}
    \cup MemberEvents({"!a"}, {UserPool[2]}, {"join", "leave"}, {""}, {"n1"})

CopyNext ==
    \/ \E m \in CopyStartups : Startup(m)
    \/ \E ed \in CopyEvents : OnNewEvent(ed)
    \/ \E roomIDs \in SUBSET RoomIDs : LoadRooms(roomIDs)
    \/ \E r \in RoomIDs : MutateCopyHeroes(r, "x")
    \/ \E r \in RoomIDs : MutateCopyChildren(r, "!c")
    \/ \E r \in RoomIDs, f \in PtrFields : MutateCopyPointer(r, f, "!x")

\* The cache with one writer, and one reader that keeps and mutates its copies.
CopySpec == Init /\ [][CopyNext]_vars

\* ---------------------------------------------- cache: writer specification

\* Startup gives no room, or room !a.
WriterStartups ==
    {StartupWith("!a", <<>>, {}, NilStr),
     [x \in RoomIDs |-> [md |-> NilMeta, children |-> {}]]}

\* The state keys of the m.space.child events: a room id, the empty string, none.
ChildKeys == {"!b", ""}

WriterEvents ==
    {[EventData(r, "m.space.child", k) EXCEPT !.viaIsArray = v] :
        r \in {"!a"}, k \in ChildKeys \cup {NilStr}, v \in BOOLEAN}
    \cup {[EventData("!b", "m.room.name", "") EXCEPT !.name = "n1"]}

EphemeralEvents == {[type |-> "m.typing", body |-> "t1"], [type |-> "m.receipt", body |-> "r1"]}

WriterNext ==
    \/ \E m \in WriterStartups : Startup(m)
    \/ \E ed \in WriterEvents : OnNewEvent(ed)
    \/ \E r \in RoomIDs, e \in EphemeralEvents : OnEphemeralEvent(r, e)
    \/ \E roomIDs \in SUBSET RoomIDs : LoadRooms(roomIDs)

\* The cache with its one writer and a reader that only calls LoadRooms.
WriterSpec == Init /\ [][WriterNext]_vars

\* ------------------------------------------- cache: LoadRooms step by step

\* The room ids of a LoadRooms call, in the order given.
SnapRequests == {<<"!a", "!b">>, <<"!b", "!a">>, <<"!b">>}

\* A writer that does not wait for the readers.
LockIgnoresReaders == TRUE

\* roomIDToMetadataMu.Lock() succeeds: no reader holds the lock (a writer is
\* one step, so none holds it between steps).
CanLock == snap.pc # "loop"

\* LoadRooms, lines 189-191: RLock and make the result map.
LoadRoomsRLock(roomIDs) ==
    /\ started
    /\ snap.pc # "loop"
    /\ snap' = [pc |-> "loop", ids |-> roomIDs, i |-> 1, result |-> NoResult,
                atLock |-> [r \in RoomIDs |->
                              IF roomIDToMetadata[r] # NilMeta
                                  THEN CopyOf(roomIDToMetadata[r])
                                  ELSE NoCopy]]
    /\ UNCHANGED notSnapVars

\* LoadRooms, lines 192-206: one pass of the loop; a room without an entry is
\* skipped.
LoadRoomsIter ==
    /\ snap.pc = "loop"
    /\ snap.i <= Len(snap.ids)
    /\ LET roomID == snap.ids[snap.i]
           sr == roomIDToMetadata[roomID]
       IN  snap' = [snap EXCEPT !.i = @ + 1,
                                !.result[roomID] = IF sr = NilMeta THEN @ ELSE CopyOf(sr)]
    /\ UNCHANGED notSnapVars

\* LoadRooms, lines 190 and 207: return result, and the deferred RUnlock.
LoadRoomsReturn ==
    /\ snap.pc = "loop"
    /\ snap.i > Len(snap.ids)
    /\ snap' = [snap EXCEPT !.pc = "returned"]
    /\ loaded' = snap.result
    /\ lastOp' = [op |-> "LoadRooms", ed |-> NoEvent]
    /\ UNCHANGED <<roomIDToMetadata, mapHeap, invitesTable, started, solo, notCacheSnapVars>>

\* The writers, each behind roomIDToMetadataMu.Lock(), lines 324 and 345.
LockedOnNewEvent(ed) == CanLock /\ OnNewEvent(ed)
LockedOnEphemeralEvent(roomID, ephEvent) == CanLock /\ OnEphemeralEvent(roomID, ephEvent)

\* The events of the writer while LoadRooms runs: names for both rooms.
SnapEvents ==
    {[EventData(r, "m.room.name", "") EXCEPT !.name = n] :
        r \in RoomIDs, n \in {"n1", "n2"}}

SnapNext ==
    \/ \E m \in WriterStartups : Startup(m)
    \/ \E ed \in SnapEvents : LockedOnNewEvent(ed)
    \/ \E r \in RoomIDs : LockedOnEphemeralEvent(r, [type |-> "m.typing", body |-> "t1"])
    \/ \E roomIDs \in SnapRequests : LoadRoomsRLock(roomIDs)
    \/ LoadRoomsIter
    \/ LoadRoomsReturn

\* The cache with its writers and one reader whose LoadRooms call runs room
\* by room.
SnapSpec == Init /\ [][SnapNext]_vars

\* ------------------------------------------ cache: LoadJoinedRooms with a store

\* The user whose joined rooms are loaded.
JoinedUser == UserPool[1]

\* The events the store takes in: the user joins and leaves !a, joins !b, and
\* !a is renamed.
JoinedEvents ==
    MemberEvents({"!a", "!b"}, {JoinedUser}, {"join"}, {""}, {""})
    \cup MemberEvents({"!a"}, {JoinedUser}, {"leave"}, {"join"}, {""})
    \cup {[EventData("!a", "m.room.name", "") EXCEPT !.name = n] : n \in {"n1", "n2"}}

\* The store before any event: Startup finds no room.
EmptyStartup == [x \in RoomIDs |-> [md |-> NilMeta, children |-> {}]]

\* The store takes in an event at the next position. The cache hears of it
\* afterwards.
StoreEvent(ed) ==
    /\ started
    /\ Len(ljr.log) < MaxEvents
    /\ ljr' = [ljr EXCEPT !.log = Append(@, ed)]
    /\ UNCHANGED <<cacheVars, notJoinedVars>>

\* The writer hands the next stored event to OnNewEvent, lines 341-437.
DispatchNewEvent ==
    /\ started
    /\ ljr.applied < Len(ljr.log)
    /\ LET ed == ljr.log[ljr.applied + 1]
       IN  /\ roomIDToMetadata' = EventMeta(roomIDToMetadata, ed)
           /\ mapHeap' = EventHeap(mapHeap, ed)
           /\ solo' = [meta |-> EventMeta(solo.meta, ed), heap |-> EventHeap(solo.heap, ed)]
           /\ invitesTable' = RetireInvite(invitesTable, ed)
           /\ loaded' = [loaded EXCEPT ![ed.RoomID].shared = @ \ Reassigned(ed)]
           /\ lastOp' = [op |-> "OnNewEvent", ed |-> ed]
    /\ ljr' = [ljr EXCEPT !.applied = @ + 1]
    /\ UNCHANGED <<started, notCacheJoinedVars>>

\* The membership of userID in roomID after the first pos events of log ("":
\* none).
RECURSIVE MembershipAt(_, _, _, _)
MembershipAt(log, userID, roomID, pos) ==
    IF pos = 0 THEN ""
    ELSE IF /\ log[pos].RoomID = roomID
            /\ log[pos].EventType = "m.room.member"
            /\ log[pos].StateKey = userID
        THEN log[pos].membership
        ELSE MembershipAt(log, userID, roomID, pos - 1)

\* store.JoinedRoomsAfterPosition(userID, pos): the rooms userID is joined to
\* after the event at pos.
JoinedRoomsAfterPosition(log, userID, pos) ==
    {r \in RoomIDs : MembershipAt(log, userID, r, pos) = "join"}

\* lines 216-219: initialLoadPosition, err := c.store.LatestEventNID()
LJRLatestEventNID(fail) ==
    /\ started
    /\ ljr.pc \in {"idle", "returned"}
    /\ ljr' = IF fail
                THEN [ljr EXCEPT !.pc = "returned", !.pos = 0, !.ids = {},
                                 !.ret = [pos |-> 0, rooms |-> "nil", err |-> TRUE]]
                ELSE [ljr EXCEPT !.pc = "gotPos", !.pos = Len(ljr.log)]
    /\ UNCHANGED <<cacheVars, notJoinedVars>>

\* lines 220-223: joinedRoomIDs, err := c.store.JoinedRoomsAfterPosition(...)
LJRJoinedRooms(fail) ==
    /\ ljr.pc = "gotPos"
    /\ ljr' = IF fail
                THEN [ljr EXCEPT !.pc = "returned", !.pos = 0, !.ids = {},
                                 !.ret = [pos |-> 0, rooms |-> "nil", err |-> TRUE]]
                ELSE [ljr EXCEPT !.pc = "gotRooms",
                                 !.ids = JoinedRoomsAfterPosition(ljr.log, JoinedUser, ljr.pos)]
    /\ UNCHANGED <<cacheVars, notJoinedVars>>

\* lines 224-226: rooms := c.LoadRooms(joinedRoomIDs...), one step under the
\* read lock, and the return, which ends the life of the locals.
LJRLoadRooms ==
    /\ ljr.pc = "gotRooms"
    /\ ljr' = [ljr EXCEPT
                 !.pc = "returned", !.pos = 0, !.ids = {},
                 !.ret = [pos |-> ljr.pos,
                          rooms |-> [r \in RoomIDs |->
                                       IF r \in ljr.ids /\ roomIDToMetadata[r] # NilMeta
                                           THEN CopyOf(roomIDToMetadata[r])
                                           ELSE NoCopy],
                          err |-> FALSE]]
    /\ UNCHANGED <<cacheVars, notJoinedVars>>

JoinedNext ==
    \/ Startup(EmptyStartup)
    \/ \E ed \in JoinedEvents : StoreEvent(ed)
    \/ DispatchNewEvent
    \/ \E fail \in BOOLEAN : LJRLatestEventNID(fail)
    \/ \E fail \in BOOLEAN : LJRJoinedRooms(fail)
    \/ LJRLoadRooms

\* One LoadJoinedRooms caller beside the store and the writer.
JoinedSpec == Init /\ [][JoinedNext]_vars

\* ------------------------------------- cache: timestamps and member counts

\* Events of both rooms that differ in type, state key, timestamp and in the
\* counts they carry: messages older and newer than what Startup loads; a
\* rename; joins, a leave and a display-name change of one user; a member
\* event sent as a message (no state key).
StampEvents ==
    {[EventData(r, "m.room.message", NilStr) EXCEPT !.Timestamp = t, !.JoinCount = 3] :
        r \in RoomIDs, t \in {1, 3}}
    \cup {[EventData(r, "m.room.name", "") EXCEPT !.name = "n1", !.Timestamp = 3,
                                                  !.InviteCount = 3] : r \in RoomIDs}
    \cup {[ed EXCEPT !.Timestamp = 4, !.JoinCount = c[1], !.InviteCount = c[2]] :
            ed \in MemberEvents(RoomIDs, {UserPool[1]}, {"join"}, {"", "join"}, {"n1"})
                   \cup MemberEvents(RoomIDs, {UserPool[1]}, {"leave"}, {"join"}, {"n1"})
                   \cup MemberEvents({"!a"}, {NilStr}, {"join"}, {""}, {"n1"}),
            c \in {<<1, 0>>, <<2, 1>>}}

StampNext ==
    \/ \E m \in WriterStartups : Startup(m)
    \/ \E ed \in StampEvents : OnNewEvent(ed)

\* The cache fed with events whose timestamps and counts go up and down.
StampSpec == Init /\ [][StampNext]_vars

\* ------------------------------------------------ cache: heroes by name

\* Member events of the senders in one room, under two display names, each
\* replacing a join: joins that change the name only, invites and leaves.
NamedHeroEvents ==
    MemberEvents({"!a"}, Senders, {"join", "invite", "leave"}, {"join"}, {"", "n1"})

NamedHeroNext ==
    \/ \E m \in HeroStartups : Startup(m)
    \/ \E ed \in NamedHeroEvents : OnNewEvent(ed)

\* The cache fed with joins, renames and leaves of NumSenders users.
NamedHeroSpec == Init /\ [][NamedHeroNext]_vars

\* ------------------------------------------- cache: state keys and types

\* The event types whose case in OnNewEvent asks for an empty state key.
GuardedTypes ==
    {"m.room.name", "m.room.encryption", "m.room.tombstone", "m.room.canonical_alias",
     "m.room.create"}

\* Event types OnNewEvent has no case for.
UnhandledTypes == {"m.room.topic"}

\* A state key that is empty, not empty, or absent.
GuardKeys == {"", "x", NilStr}

\* Events of room !a of every guarded and unhandled type under every state
\* key, each with every content field present; a tombstone without a
\* replacement room; a space child.
GuardEvents ==
    {[EventData("!a", t, k) EXCEPT
          !.Timestamp = 3, !.name = "n1", !.replacement_room = "!b", !.alias = "#a",
          !.roomType = "m.space", !.predecessor = "!old", !.viaIsArray = TRUE] :
        t \in GuardedTypes \cup UnhandledTypes, k \in GuardKeys}
    \cup {[EventData("!a", "m.room.tombstone", "") EXCEPT !.Timestamp = 3]}
    \cup {[EventData("!a", "m.space.child", "!b") EXCEPT !.Timestamp = 3,
                                                        !.viaIsArray = TRUE]}

\* Typing notifications of two bodies and a receipt.
GuardEphemerals ==
    {[type |-> "m.typing", body |-> b] : b \in {"t1", "t2"}}
    \cup {[type |-> "m.receipt", body |-> "r1"]}

GuardNext ==
    \/ \E m \in WriterStartups : Startup(m)
    \/ \E ed \in GuardEvents : OnNewEvent(ed)
    \/ \E e \in GuardEphemerals : OnEphemeralEvent("!a", e)

\* The cache fed with state events under right and wrong state keys, events
\* of other types and ephemeral events, all of one room.
GuardSpec == Init /\ [][GuardNext]_vars

\* ------------------------------------------------------ sqlutil: Chunkify

\* The inputs: n entries, told apart by their position in the input.
ChunkInputs == {[k \in 1..len |-> k] : len \in 0..MaxEntries}
ParamCounts == 1..MaxParams

\* The chunks of a call are kept up to this many, more than any call that
\* returns can make; of the turns a loop takes after that only the parity is
\* kept.
MaxTurns == MaxEntries + 2

\* Mutant: the chunk stops one entry early.
SubsliceShort(entries, i, j) == SubSeq(entries, i + 1, j - 1)

\* Chunker.Subslice(i, j), lines 52-55: the entries at the 0-based positions
\* i .. j-1, as a slice gives them.
Subslice(entries, i, j) == SubSeq(entries, i + 1, j)

\* Mutant: the slice starts one entry late.
SliceExprLate(entries, i, j) == SubSeq(entries, i + 2, j)

\* Go's entries[i:j], line 101.
SliceExpr(entries, i, j) == SubSeq(entries, i + 1, j)

\* lines 65-69 and 88-92: the common case, everything fits in one call.
Fits(numParamsPerStmt, maxParamsPerCall, len) ==
    len * numParamsPerStmt <= maxParamsPerCall

\* lines 72 and 95: numEntriesPerChunk, Go's integer division.
NumEntriesPerChunk(numParamsPerStmt, maxParamsPerCall) ==
    maxParamsPerCall \div numParamsPerStmt

\* Both functions are called with (numParamsPerStmt, maxParamsPerCall, entries).
ChunkCall(numParamsPerStmt, maxParamsPerCall, entries) ==
    /\ chk.c1.pc \in {"idle", "returned"}
    /\ chk.c2.pc \in {"idle", "returned"}
    /\ chk' = [n |-> numParamsPerStmt, m |-> maxParamsPerCall, entries |-> entries,
               c1 |-> [NoChunkCall EXCEPT !.pc = "called"],
               c2 |-> [NoChunkCall EXCEPT !.pc = "called"]]
    /\ UNCHANGED notChunkVars

\* Chunkify, lines 65-72: return the entries as one chunk, or enter the loop.
ChunkifyEnter ==
    /\ chk.c1.pc = "called"
    /\ chk' = [chk EXCEPT !.c1 =
                  IF Fits(chk.n, chk.m, Len(chk.entries))
                      THEN [NoChunkCall EXCEPT !.pc = "returned", !.chunks = <<chk.entries>>]
                      ELSE [NoChunkCall EXCEPT !.pc = "loop"]]
    /\ UNCHANGED notChunkVars

\* Chunkify, lines 73-79: one turn of the loop.
ChunkifyIter ==
    /\ chk.c1.pc = "loop"
    /\ chk.c1.i < Len(chk.entries)
    /\ LET numEntriesPerChunk == NumEntriesPerChunk(chk.n, chk.m)
           endIndex == IF chk.c1.i + numEntriesPerChunk > Len(chk.entries)
                          THEN Len(chk.entries)
                          ELSE chk.c1.i + numEntriesPerChunk
       IN  chk' = IF Len(chk.c1.chunks) < MaxTurns
                     THEN [chk EXCEPT
                              !.c1.chunks = Append(@, Subslice(chk.entries, chk.c1.i, endIndex)),
                              !.c1.i = @ + numEntriesPerChunk]
                     ELSE [chk EXCEPT
                              !.c1.more = ~@,
                              !.c1.i = @ + numEntriesPerChunk]
    /\ UNCHANGED notChunkVars

\* Chunkify, lines 73 and 81: the loop condition fails, return chunks.
ChunkifyReturn ==
    /\ chk.c1.pc = "loop"
    /\ ~(chk.c1.i < Len(chk.entries))
    /\ chk' = [chk EXCEPT !.c1.pc = "returned"]
    /\ UNCHANGED notChunkVars

\* Chunkify2, lines 88-95.
Chunkify2Enter ==
    /\ chk.c2.pc = "called"
    /\ chk' = [chk EXCEPT !.c2 =
                  IF Fits(chk.n, chk.m, Len(chk.entries))
                      THEN [NoChunkCall EXCEPT !.pc = "returned", !.chunks = <<chk.entries>>]
                      ELSE [NoChunkCall EXCEPT !.pc = "loop"]]
    /\ UNCHANGED notChunkVars

\* Chunkify2, lines 96-102.
Chunkify2Iter ==
    /\ chk.c2.pc = "loop"
    /\ chk.c2.i < Len(chk.entries)
    /\ LET numEntriesPerChunk == NumEntriesPerChunk(chk.n, chk.m)
           endIndex == IF chk.c2.i + numEntriesPerChunk > Len(chk.entries)
                          THEN Len(chk.entries)
                          ELSE chk.c2.i + numEntriesPerChunk
       IN  chk' = IF Len(chk.c2.chunks) < MaxTurns
                     THEN [chk EXCEPT
                              !.c2.chunks = Append(@, SliceExpr(chk.entries, chk.c2.i, endIndex)),
                              !.c2.i = @ + numEntriesPerChunk]
                     ELSE [chk EXCEPT
                              !.c2.more = ~@,
                              !.c2.i = @ + numEntriesPerChunk]
    /\ UNCHANGED notChunkVars

\* Chunkify2, lines 96 and 104.
Chunkify2Return ==
    /\ chk.c2.pc = "loop"
    /\ ~(chk.c2.i < Len(chk.entries))
    /\ chk' = [chk EXCEPT !.c2.pc = "returned"]
    /\ UNCHANGED notChunkVars

ChunkNext ==
    \/ \E n \in ParamCounts, m \in ParamCounts, entries \in ChunkInputs :
            ChunkCall(n, m, entries)
    \/ ChunkifyEnter
    \/ ChunkifyIter
    \/ ChunkifyReturn
    \/ Chunkify2Enter
    \/ Chunkify2Iter
    \/ Chunkify2Return

\* Calls of Chunkify and Chunkify2 on every input, one pair after the other.
ChunkSpec == Init /\ [][ChunkNext]_vars

\* Each call takes its next step as long as it has one.
ChunkLive ==
    /\ ChunkSpec
    /\ WF_vars(ChunkifyEnter) /\ WF_vars(ChunkifyIter) /\ WF_vars(ChunkifyReturn)
    /\ WF_vars(Chunkify2Enter) /\ WF_vars(Chunkify2Iter) /\ WF_vars(Chunkify2Return)

\* ------------------------------------------------- connection: list specification

\* Both spaces are loaded with no children.
ListStartups ==
    {[x \in RoomIDs |-> [md |-> [NewMetadata(x) EXCEPT !.LastMessageTimestamp = 2],
                         children |-> {}]]}

\* m.space.child events of both spaces for the rooms !b and !c.
ListEvents ==
    {[EventData(r, "m.space.child", k) EXCEPT !.viaIsArray = v] :
        r \in RoomIDs, k \in {"!b", "!c"}, v \in BOOLEAN}

ListNext ==
    \/ \E m \in ListStartups : Startup(m)
    \/ \E ed \in ListEvents : OnNewEvent(ed)
    \/ \E spaces \in SUBSET RoomIDs, hasPos \in BOOLEAN : ListRequest(spaces, hasPos)

\* A connection that lists the children of spaces while the space edges change.
ListSpec == Init /\ [][ListNext]_vars

\* ------------------------------------------------------------ gate: claims

\* The channel stored in p's slot (NilCh when there is none).
SlotCh(p) == pendingPolls[p].ch

\* C1: under fair delivery every EnsurePolling call in progress returns, and no
\* caller is blocked on a channel that is neither in pendingPolls nor closed.
C1_NoWaiterOnRemovedChannel ==
    \A c \in Callers :
        pc[c] \in {"notify", "recv"} =>
            \/ callCh[c] # NilCh /\ callCh[c] = SlotCh(callPid[c])
            \/ CanRecv(callCh[c])

C1_GateLiveness ==
    /\ []C1_NoWaiterOnRemovedChannel
    /\ \A c \in Callers : (pc[c] \in {"notify", "recv"}) ~> (pc[c] = "idle")

\* C1 witness: a caller that published and blocked on a pending slot has returned
\* (a request is published only on the way to the receive, and no call is left).
C1_Witness ==
    /\ Len(v3chan) > 0
    /\ \A c \in Callers : pc[c] = "idle"

\* C2: no channel is closed twice, no nil channel is closed, a closed channel is
\* never left in pendingPolls and never handed to a caller that enters later.
C2_ClosedOnceState ==
    /\ panicked = ""
    /\ \A ch \in Chans : closes[ch] <= 1
    /\ \A p \in PollerIDs : SlotCh(p) # NilCh => closes[SlotCh(p)] = 0
    /\ \A ch \in Chans : ch >= nextChan => closes[ch] = 0

C2_HandedOpen ==
    \A c \in Callers :
        (pc[c] = "idle" /\ pc'[c] \in {"notify", "recv"}) =>
            /\ callCh'[c] # NilCh
            /\ closes[callCh'[c]] = 0
            /\ closes'[callCh'[c]] = 0
            /\ pc'[c] = "notify" =>
                    \A d \in Callers \ {c} : callCh[d] # callCh'[c]

C2_CloseOnce == []C2_ClosedOnceState /\ [][C2_HandedOpen]_vars

\* C2 witness: one channel was closed and removed, and a later caller waits on
\* another, open channel for the same pid.
C2_Witness ==
    \E c \in Callers, ch \in Chans :
        /\ closes[ch] = 1
        /\ pc[c] = "recv"
        /\ callCh[c] = SlotCh(callPid[c])
        /\ callCh[c] > ch
        /\ closes[callCh[c]] = 0

\* A done slot was made by a delivered OnInitialSyncComplete(pid), so a call that
\* returns at once returns after one.
C3_DoneImpliesComplete ==
    \A p \in PollerIDs : pendingPolls[p].done => everComplete[p]

C4_AtMostOneStartRequest ==
    /\ \A p \in PollerIDs : pubCount[p] <= 1
    /\ \A c \in Callers :
        /\ callPublished[c] => callPath[c] = "create"
        /\ (callPath[c] = "create" /\ pc[c] = "recv") => callPublished[c]
        /\ pc[c] = "notify" => callPath[c] = "create" /\ ~callPublished[c]

\* C4 witness: two calls for the same pid are in progress in the same epoch, one
\* created the slot and published, the other attached.
C4_Witness ==
    \E c, d \in Callers :
        /\ c # d /\ callPid[c] = callPid[d]
        /\ pc[c] = "recv" /\ pc[d] = "recv"
        /\ callSameEpoch[c] /\ callSameEpoch[d]
        /\ callPath[c] = "create" /\ callPath[d] = "attach"
        /\ pubCount[callPid[c]] = 1

\* C5: a slot is (done=false, ch open) or (done=true, ch=nil); the step that sets
\* done closes the slot's channel, once, and no close is ever undone.
C5_SlotShape ==
    \A p \in PollerIDs :
        pendingPolls[p].present =>
            \/ ~pendingPolls[p].done /\ SlotCh(p) # NilCh /\ closes[SlotCh(p)] = 0
            \/ pendingPolls[p].done /\ SlotCh(p) = NilCh

C5_DoneCloses ==
    /\ \A p \in PollerIDs :
        (pendingPolls[p].present /\ ~pendingPolls[p].done /\ pendingPolls'[p].done) =>
            /\ closes[SlotCh(p)] = 0
            /\ closes'[SlotCh(p)] = 1
            /\ panicked' = ""
    /\ \A ch \in Chans : closes'[ch] >= closes[ch]

C5_PendingPollInvariant == []C5_SlotShape /\ [][C5_DoneCloses]_vars

\* C5 witness: a slot that was pending is done and its channel is closed.
C5_Witness ==
    \E p \in PollerIDs, c \in Callers :
        /\ pendingPolls[p].done
        /\ callPid[c] = p /\ callPath[c] = "create" /\ callSameEpoch[c]
        /\ pc[c] = "recv" /\ CanRecv(callCh[c])

\* C6: OnExpiredToken(pid) leaves no slot for pid and every call in progress for
\* pid has a closed channel (nothing changes when there was no slot); an
\* EnsurePolling(pid) that finds no slot stores a fresh open channel, and goes on
\* to publish one V3EnsurePolling for pid and to block on that channel.
C6_ExpiredReleases ==
    \A p \in PollerIDs :
        OnExpiredToken(p) =>
            /\ pendingPolls'[p] = NoSlot
            /\ \A c \in InCall(p) : CanRecv(callCh[c])'
            /\ ~pendingPolls[p].present => UNCHANGED <<pendingPolls, closes, panicked>>

C6_NextCreates ==
    \A c \in Callers, p \in PollerIDs, t \in TokenHashes :
        (~pendingPolls[p].present /\ EnsurePolling(c, p, t)) =>
            /\ pendingPolls'[p] = Slot(FALSE, callCh'[c])
            /\ callCh'[c] # NilCh
            /\ closes'[callCh'[c]] = 0
            /\ \A q \in PollerIDs \ {p} : SlotCh(q) # callCh'[c]
            /\ \A d \in Callers \ {c} : callCh[d] # callCh'[c]
            /\ pc'[c] = "notify"

C6_NotifyPublishes ==
    \A c \in Callers :
        Notify(c) =>
            /\ v3chan' = Append(v3chan, [UserID |-> callPid[c].UserID,
                                         DeviceID |-> callPid[c].DeviceID,
                                         AccessTokenHash |-> callTok[c]])
            /\ pc'[c] = "recv"
            /\ callCh'[c] = callCh[c]

C6_ExpiredToken ==
    [][C6_ExpiredReleases /\ C6_NextCreates /\ C6_NotifyPublishes]_vars

\* C6 witness: after an expiry closed the channel of pid's first slot, another
\* call for pid created a new slot, published and is blocked on the new channel.
C6_Witness ==
    \E d \in Callers :
        /\ closes[1] = 1 /\ ~everComplete[callPid[d]]
        /\ \A i \in 1..Len(v3chan) : v3chan[i].DeviceID = callPid[d].DeviceID
        /\ pc[d] = "recv" /\ callPath[d] = "create" /\ callPublished[d]
        /\ callSameEpoch[d] /\ ~CanRecv(callCh[d])
        /\ Len(v3chan) = 2

\* C7: OnInitialSyncComplete(pid) leaves a done slot; with no slot it closes
\* nothing, with a done slot it changes nothing (so a second application changes
\* nothing); while the slot is done EnsurePolling(pid) returns at once without
\* publishing, and only OnExpiredToken(pid) ends that.
C7_CompleteStep ==
    \A p \in PollerIDs :
        OnInitialSyncComplete(p) =>
            /\ pendingPolls'[p] = Slot(TRUE, NilCh)
            /\ \A q \in PollerIDs \ {p} : pendingPolls'[q] = pendingPolls[q]
            /\ ~pendingPolls[p].present => closes' = closes /\ panicked' = panicked
            /\ pendingPolls[p].done => UNCHANGED <<pendingPolls, closes, panicked>>

C7_DoneReturnsAtOnce ==
    \A c \in Callers, p \in PollerIDs, t \in TokenHashes :
        (pendingPolls[p].done /\ EnsurePolling(c, p, t)) =>
            /\ pc'[c] = "idle"
            /\ UNCHANGED <<pendingPolls, closes, panicked, v3chan, nextChan>>

C7_DoneUntilExpired ==
    \A p \in PollerIDs :
        (pendingPolls[p].done /\ pendingPolls'[p] # pendingPolls[p]) => OnExpiredToken(p)

C7_CompleteIdempotent ==
    [][C7_CompleteStep /\ C7_DoneReturnsAtOnce /\ C7_DoneUntilExpired]_vars

\* C7 witness: a spontaneous completion (no channel was ever made) left a done
\* slot; nothing was published for it and no call is waiting.
C7_Witness ==
    /\ nextChan = 1 /\ v3chan = <<>>
    /\ \E p \in PollerIDs : pendingPolls[p] = Slot(TRUE, NilCh)
    /\ \A c \in Callers : pc[c] = "idle"

\* C26, as a step: a gate operation for pid p leaves the slot of every other
\* pid q as it is, and a caller blocked in EnsurePolling(q) stays blocked: its
\* channel is not closed.
C26_OtherPidsUntouched ==
    \A p \in PollerIDs :
        \/ \E c \in Callers, t \in TokenHashes : EnsurePolling(c, p, t)
        \/ OnInitialSyncComplete(p)
        \/ OnExpiredToken(p)
        => \A q \in PollerIDs \ {p} :
            /\ pendingPolls'[q] = pendingPolls[q]
            /\ \A c \in Callers :
                pc[c] = "recv" /\ callPid[c] = q =>
                    /\ pc'[c] = "recv"
                    /\ callCh'[c] = callCh[c]
                    /\ closes'[callCh[c]] = closes[callCh[c]]

\* C26: EnsurePolling, OnInitialSyncComplete and OnExpiredToken for pid p
\* change only p's slot: they never create, modify or delete the slot of
\* another pid and never release a caller blocked in EnsurePolling for one.
C26_GateFrame == [][C26_OtherPidsUntouched]_vars

\* C26 witness: the slot of one pid was made and then removed by
\* OnExpiredToken, its channel closed, while a caller of another pid is still
\* blocked on that pid's pending slot.
C26_Witness ==
    \E p \in PollerIDs, q \in PollerIDs, c \in Callers :
        /\ p # q
        /\ ~pendingPolls[p].present /\ ~everComplete[p] /\ closes[1] = 1
        /\ pendingPolls[q] = Slot(FALSE, 2) /\ closes[2] = 0
        /\ pc[c] = "recv" /\ callPid[c] = q /\ callCh[c] = 2

\* ----------------------------------------------------------- cache: claims

\* The ids of the heroes of room r.
HeroIDs(r) == {roomIDToMetadata[r].Heroes[i].ID : i \in 1..Len(roomIDToMetadata[r].Heroes)}

\* The last operation was OnNewEvent of an m.room.member event with a state key.
LastWasMember == lastOp.op = "OnNewEvent" /\ lastOp.ed.EventType = "m.room.member"
                    /\ lastOp.ed.StateKey # NilStr

\* C8: from a cache whose rooms have at most 6 heroes, after any sequence of
\* OnNewEvent calls every room has at most 6 heroes.
C8_HeroBound ==
    \A r \in RoomIDs : Len(roomIDToMetadata[r].Heroes) <= HeroLimit

\* C8 witness: a room has 6 heroes and the last event was the join or invite of
\* a further user.
C8_Witness ==
    /\ LastWasMember
    /\ lastOp.ed.membership \in {"join", "invite"}
    /\ Len(roomIDToMetadata[lastOp.ed.RoomID].Heroes) = HeroLimit
    /\ lastOp.ed.StateKey \notin HeroIDs(lastOp.ed.RoomID)

\* C9 as stated: the user of a leave or ban event is not a hero of the room once
\* OnNewEvent has processed that event.
C9_NoDepartedHeroes ==
    (LastWasMember /\ lastOp.ed.membership \in {"leave", "ban"}) =>
        lastOp.ed.StateKey \notin HeroIDs(lastOp.ed.RoomID)

\* C10 as stated: a copy LoadRooms returned, and that its caller has not
\* mutated, keeps the value it had when it was returned; and a mutation of a
\* copy by its caller leaves what the cache holds unchanged.
C10_CopyStable ==
    \A r \in RoomIDs :
        (loaded[r] # NoCopy /\ ~loaded[r].dirty) => CopyValue(r) = loaded[r].atLoad

C10_MutationIsPrivate ==
    (\/ \E r \in RoomIDs : MutateCopyHeroes(r, "x")
     \/ \E r \in RoomIDs : MutateCopyChildren(r, "!c")
     \/ \E r \in RoomIDs, f \in PtrFields : MutateCopyPointer(r, f, "!x"))
        => \A r \in RoomIDs : CacheValue(r)' = CacheValue(r)

C10_DeepCopies == []C10_CopyStable /\ [][C10_MutationIsPrivate]_vars

\* C11 as stated: every metadata the cache holds has LastMessageTimestamp > 0.
C11_TimestampPositive ==
    \A r \in RoomIDs :
        roomIDToMetadata[r] # NilMeta => roomIDToMetadata[r].LastMessageTimestamp > 0

\* C12: the cache is what the same Startup and events give with no reader at all,
\* and a LoadRooms step leaves the cache and the invites table unchanged.
C12_SameAsSolo == roomIDToMetadata = solo.meta /\ mapHeap = solo.heap

C12_LoadRoomsReadsOnly ==
    (\E roomIDs \in SUBSET RoomIDs : LoadRooms(roomIDs)) =>
        UNCHANGED <<roomIDToMetadata, mapHeap, invitesTable>>

C12_SingleWriter == []C12_SameAsSolo /\ [][C12_LoadRoomsReadsOnly]_vars

\* C12 witness: the writer went on after a LoadRooms: the reader holds a copy of
\* room !a that is older than the cache.
C12_Witness ==
    /\ loaded["!a"] # NoCopy
    /\ lastOp.op = "OnNewEvent"
    /\ loaded["!a"].atLoad # CacheValue("!a")

\* C13: an entry is never removed; OnNewEvent and OnEphemeralEvent leave an entry
\* for the room they name; an entry appears only by Startup or by such a call.
C13_NeverRemoved ==
    \A r \in RoomIDs : roomIDToMetadata[r] # NilMeta => roomIDToMetadata'[r] # NilMeta

C13_CreatedOnReference ==
    /\ \A ed \in WriterEvents : OnNewEvent(ed) => roomIDToMetadata'[ed.RoomID] # NilMeta
    /\ \A r \in RoomIDs, e \in EphemeralEvents :
            OnEphemeralEvent(r, e) => roomIDToMetadata'[r] # NilMeta
    /\ \A r \in RoomIDs :
            (roomIDToMetadata[r] = NilMeta /\ roomIDToMetadata'[r] # NilMeta) =>
                \/ \E m \in WriterStartups : Startup(m)
                \/ \E ed \in WriterEvents : ed.RoomID = r /\ OnNewEvent(ed)
                \/ \E e \in EphemeralEvents : OnEphemeralEvent(r, e)

C13_RoomsPersist == [][C13_NeverRemoved /\ C13_CreatedOnReference]_vars

\* C13 witness: room !b, which no Startup gives, got its entry from an ephemeral
\* event that is not m.typing, and later operations kept it.
C13_Witness ==
    /\ roomIDToMetadata["!b"] # NilMeta
    /\ roomIDToMetadata["!b"].LastMessageTimestamp = 0
    /\ roomIDToMetadata["!b"].TypingEvent = NoPayload
    /\ lastOp.op = "LoadRooms"

\* The last operation was OnNewEvent of an m.space.child event with a state key.
LastWasSpaceChild ==
    /\ lastOp.op = "OnNewEvent"
    /\ lastOp.ed.EventType = "m.space.child"
    /\ lastOp.ed.StateKey # NilStr

\* C14: after an m.space.child event with state key k in room P, k is a child of
\* P exactly when the event's via is an array; and membership of k in P's child
\* set changes only by such an event, so the set is given by the most recent
\* event of every key.
C14_LastChildEdge ==
    LastWasSpaceChild =>
        (lastOp.ed.StateKey \in Children(lastOp.ed.RoomID) <=> lastOp.ed.viaIsArray)

C14_OnlyThatEdge ==
    \A r \in RoomIDs, k \in ChildKeys :
        ((k \in Children(r)) # (k \in Children(r)')) =>
            \E ed \in WriterEvents :
                /\ ed.EventType = "m.space.child" /\ ed.RoomID = r /\ ed.StateKey = k
                /\ OnNewEvent(ed)

C14_SpaceEdges == []C14_LastChildEdge /\ [][C14_OnlyThatEdge]_vars

\* C14 witness: room !a had the children "" and !b, and an event without a via
\* array has just removed "" and left !b.
C14_Witness ==
    /\ LastWasSpaceChild
    /\ lastOp.ed.RoomID = "!a" /\ lastOp.ed.StateKey = "" /\ ~lastOp.ed.viaIsArray
    /\ Children("!a") = {"!b"}

\* ------------------------------------------------------ connection: claims

\* The elements of a sequence.
Elems(q) == {q[i] : i \in 1..Len(q)}

\* The user's rooms that are a child of at least one of the spaces.
ChildrenOfAny(spaces) == (UNION {Children(sp) : sp \in spaces}) \cap Elems(SortedRooms)

\* C15: the list of a request with filter spaces=S holds exactly the user's rooms
\* in the union of the child sets of S, each once, and count is their number.
C15_ListIsUnion ==
    \A spaces \in SUBSET RoomIDs, hasPos \in BOOLEAN :
        ListRequest(spaces, hasPos) =>
            /\ Elems(conn'.rooms) = ChildrenOfAny(spaces)
            /\ Len(conn'.rooms) = Cardinality(ChildrenOfAny(spaces))
            /\ conn'.count = Cardinality(ChildrenOfAny(spaces))

C15_SpacesFilter == [][C15_ListIsUnion]_vars

\* C15 witness: with filter {!a, !b}, room !c is a child of both spaces and is
\* listed once, and !b is listed as a child of !a only.
C15_Witness ==
    /\ conn.exists /\ conn.filter = {"!a", "!b"}
    /\ Children("!a") = {"!b", "!c"} /\ Children("!b") = {"!c"}
    /\ conn.rooms = <<"!c", "!b">> /\ conn.count = 2

\* C16: the response to a request that changes the filter of a live list has
\* its INVALIDATE ops, for the range sent before, ahead of its SYNC ops, and the
\* SYNC carries the rooms of the new filter in sort order.
C16_InvalidateThenSync ==
    \A spaces \in SUBSET RoomIDs :
        ListRequest(spaces, TRUE) =>
            LET ops == conn'.ops
                inv == {i \in 1..Len(ops) : ops[i].Operation = "INVALIDATE"}
                syn == {i \in 1..Len(ops) : ops[i].Operation = "SYNC"}
            IN  /\ inv \cup syn = 1..Len(ops)
                /\ \A i \in inv, j \in syn : i < j
                /\ Cardinality(inv) = (IF Len(conn.rooms) > 0 THEN 1 ELSE 0)
                /\ \A i \in inv : ops[i].Range = <<0, Len(conn.rooms) - 1>>
                /\ Cardinality(syn) = (IF ChildrenOfAny(spaces) # {} THEN 1 ELSE 0)
                /\ \A j \in syn :
                        /\ Elems(ops[j].RoomIDs) = ChildrenOfAny(spaces)
                        /\ ops[j].Range = <<0, Len(ops[j].RoomIDs) - 1>>
                        /\ \A a, b \in 1..Len(SortedRooms) :
                              \A x, y \in 1..Len(ops[j].RoomIDs) :
                                (SortedRooms[a] = ops[j].RoomIDs[x]
                                 /\ SortedRooms[b] = ops[j].RoomIDs[y] /\ a < b)
                                    => x < y

C16_FilterChange == [][C16_InvalidateThenSync]_vars

\* C16 witness: the list of space !a had two rooms; the request switched the
\* filter to space !b, whose child is !c.
C16_Witness ==
    /\ conn.answered = "refilter" /\ conn.filter = {"!b"}
    /\ conn.ops = <<OpRange("INVALIDATE", 0, 1, <<>>), OpRange("SYNC", 0, 0, <<"!c">>)>>

\* -------------------------------------------------------- response: claims

\* Two ops carry the same data: a nil and an empty room id list both list no room.
SameOp(a, b) ==
    /\ a.kind = b.kind
    /\ a.Operation = b.Operation
    /\ a.kind = "range" => a.Range = b.Range /\ a.RoomIDs.elems = b.RoomIDs.elems
    /\ a.kind = "single" => a.Index = b.Index /\ a.RoomID = b.RoomID

\* The JSON array of ops on the wire.
WireOps == Get(wire.json, "ops", <<>>)

\* C17: on the wire every range op has a range field and no single op has one; a
\* single op has an index field exactly when its index is not nil (0 included);
\* an op is decoded as a range op exactly when its JSON has a range field; and
\* unmarshalling what Marshal wrote gives the same ops in the same order.
C17_WireRoundTrip ==
    /\ (wire.stage \in {"encoded", "decoded"} /\ ~wire.foreign) =>
            /\ Len(WireOps) = Len(wire.ops)
            /\ \A i \in 1..Len(wire.ops) :
                    /\ "range" \in DOMAIN WireOps[i] <=> wire.ops[i].kind = "range"
                    /\ wire.ops[i].kind = "single" =>
                            /\ "index" \in DOMAIN WireOps[i] <=> wire.ops[i].Index.set
                            /\ wire.ops[i].Index.set =>
                                    WireOps[i]["index"] = wire.ops[i].Index.v
    /\ wire.stage = "decoded" =>
            /\ Len(wire.out) = Len(WireOps)
            /\ \A i \in 1..Len(wire.out) :
                    wire.out[i].kind = "range" <=> "range" \in DOMAIN WireOps[i]
    /\ (wire.stage = "decoded" /\ ~wire.foreign) =>
            /\ Len(wire.out) = Len(wire.ops)
            /\ \A i \in 1..Len(wire.ops) : SameOp(wire.out[i], wire.ops[i])

\* C17 witness: a SYNC of range [0, 0] and an INSERT at index 0 made the round
\* trip.
C17_Witness ==
    /\ wire.stage = "decoded" /\ ~wire.foreign
    /\ wire.ops = <<RangeOp("SYNC", <<0, 0>>, Slice(FALSE, <<"!c">>)),
                    SingleOp("INSERT", IntPtr(TRUE, 0), "!c")>>
    /\ wire.out = wire.ops

\* ---------------------------------------------------- account data: claims

\* The last response carries Global entries.
HasGlobal == ~acct.res.isNil /\ Len(acct.res.Global.elems) > 0

\* C18 as stated: a response carries Global entries only when it answers the
\* connection's initial request.
C18_GlobalOnlyOnInitial == HasGlobal => acct.answered = "initial"

\* C18 amended: a response carries Global entries only when it answers the
\* initial request or a live global account data update (then that update's
\* events); room account data is sent with every request that names rooms and
\* with live room updates.
C18_GlobalInitialOrLive ==
    /\ HasGlobal =>
            \/ acct.answered = "initial"
            \/ /\ acct.answered = "live"
               /\ acct.update.type = "AccountDataUpdate"
               /\ acct.res.Global.elems = acct.update.AccountData
    /\ acct.answered = "request" => acct.res.Global.isNil
    /\ (acct.answered \in {"initial", "request"} /\ ~acct.res.Rooms.isNil) =>
            \A r \in DOMAIN acct.res.Rooms.m : acct.res.Rooms.m[r] = StoredRoomData[r]
    /\ (acct.answered = "live" /\ acct.update.type = "RoomAccountDataUpdate") =>
            acct.res.Rooms.m = (acct.update.RoomID :> acct.update.AccountData)

\* C18 witness: a live global account data update was answered with its event
\* while other global account data is stored.
C18_Witness ==
    /\ acct.answered = "live"
    /\ acct.global = <<"g1">>
    /\ acct.res.Global = Slice(FALSE, <<"g2">>)

\* ----------------------------------------------------- sqlutil: claims

\* The last WithTransaction call made the given call on its transaction.
TxCalled(name) == \E i \in 1..Len(tx.calls) : tx.calls[i] = name

\* C19 as stated: a transaction that began is committed exactly when the
\* callback returned nil without panicking; when the callback returned an error
\* or panicked it is rolled back; and a panic is returned as an error and does
\* not leave WithTransaction.
C19_CommitIffSuccess ==
    TxCalled("fn") =>
        /\ TxCalled("Commit") <=> tx.outcome = "nil"
        /\ tx.outcome # "nil" => TxCalled("Rollback")
        /\ tx.outcome \in {"panic", "panic(nil)"} => tx.ret # "nil" /\ ~tx.propagated


\* ------------------------------------------------------- store: claims

\* The device row is there and committed.
Committed(row) == row.present /\ row.by = 0

\* C20, first part: a committed device row changes only by UpdateDeviceSince or
\* UpdateUserIDForDevice on that device; no step of NewSession changes or
\* removes it.
C20_RowsKept ==
    \A d \in Devices :
        Committed(sess.devices[d]) =>
            \/ sess.devices'[d] = sess.devices[d]
            \/ \E s \in SinceTokens : UpdateDeviceSince(d, s)
            \/ \E u \in UserIDs : UpdateUserIDForDevice(d, u)

\* C20, second part: when the device has a row, NewSession's insert changes
\* nothing and the session it then builds carries the row's since and user id;
\* when it has none, the insert makes a row with empty since and user id and
\* the session carries empty V2Since and UserID.
C20_SessionFromRow ==
    \A c \in Clients :
        LET p == sess.procs[c]
            q == sess.procs'[c]
            row == sess.devices[p.dev]
        IN  /\ (\E fail \in BOOLEAN : NSInsertDevice(c, fail)) /\ q.err = "nil" =>
                IF row.present
                    THEN sess.devices' = sess.devices /\ q.pc = "select"
                    ELSE /\ sess.devices'[p.dev] = NewRow(c)
                         /\ q.session = Session(p.id, p.dev, "", "")
            /\ (\E fail \in BOOLEAN : NSSelect(c, fail)) /\ q.err = "nil" =>
                /\ Committed(row)
                /\ sess.devices' = sess.devices
                /\ q.session = Session(p.id, p.dev, row.since, row.user_id)

\* C20, third part: a NewSession call about to return a session without an
\* error either found a committed row, or inserted the row itself, and then
\* the row and the session both have empty since and user id.
C20_ReturnedSession ==
    \A c \in Clients :
        LET p == sess.procs[c]
            row == sess.devices[p.dev]
        IN  p.pc = "end" /\ p.err = "nil" =>
                /\ ~p.session.nil /\ p.session.ID = p.id /\ p.session.DeviceID = p.dev
                /\ row.present
                /\ row.by # 0 =>
                    /\ row.by = c
                    /\ row.since = "" /\ row.user_id = ""
                    /\ p.session.V2Since = "" /\ p.session.UserID = ""

\* C20: NewSession never clobbers a device's since token or user id: it leaves
\* an existing row unchanged and returns its values in the new session, also
\* when NewSession calls for the same device overlap; only for a device
\* without a row does it insert one with empty since and return empty V2Since
\* and UserID.
C20_NeverClobbers ==
    /\ []C20_ReturnedSession
    /\ [][C20_RowsKept /\ C20_SessionFromRow]_vars

\* C20 witness: a NewSession call took session id 1, another call for the same
\* device then took id 2, made the device row and committed, the since token
\* and the user id were set, and the first call is about to return them.
C20_Witness ==
    \E c \in Clients :
        LET p == sess.procs[c]
        IN  /\ p.pc = "end" /\ p.err = "nil"
            /\ p.session = Session(1, p.dev, "s1", "@u1")
            /\ sess.devices[p.dev] = [present |-> TRUE, since |-> "s1",
                                      user_id |-> "@u1", by |-> 0]
            /\ \E r \in sess.sessions :
                r.session_id = 2 /\ r.device_id = p.dev /\ r.by = 0

\* C21, as a state: the session the last lookup returned has the id and the
\* device id that were asked for, and a committed session row has both.
C21_ReturnedRowExists ==
    ~sess.got.session.nil =>
        /\ sess.got.err = "nil"
        /\ sess.got.session.ID = sess.got.sessionID
        /\ sess.got.session.DeviceID = sess.got.deviceID
        /\ \E r \in sess.sessions :
            r.by = 0 /\ r.session_id = sess.got.sessionID
                     /\ r.device_id = sess.got.deviceID

\* C21, as a step: Session(i, d) returns a session only when a committed row
\* has session id i and device id d, and returns (nil, nil) when the id exists
\* under another device only.
C21_LookupStep ==
    \A i \in SessionIDs, d \in Devices, fail \in BOOLEAN :
        LookupSession(i, d, fail) =>
            /\ ~sess'.got.session.nil =>
                \E r \in sess.sessions :
                    r.by = 0 /\ r.session_id = i /\ r.device_id = d
            /\ (\E r \in sess.sessions : r.by = 0 /\ r.session_id = i /\ r.device_id # d) =>
                /\ sess'.got.session.nil
                /\ ~fail => sess'.got.err = "nil"

\* C21: the session lookup is bound to the device: Session(sessionID,
\* deviceID) returns a session only if a session row has exactly that session
\* id and that device id, and (nil, nil) for a session id of another device.
C21_BoundToDevice ==
    /\ []C21_ReturnedRowExists
    /\ [][C21_LookupStep]_vars

\* C21 witness: session 1 is a committed session of dev1, and the lookup of
\* session 1 under dev2 returned (nil, nil).
C21_Witness ==
    /\ sess.got = [sessionID |-> 1, deviceID |-> "dev2", session |-> NilSession,
                   err |-> "nil"]
    /\ \E r \in sess.sessions : r.by = 0 /\ r.session_id = 1 /\ r.device_id = "dev1"

\* -------------------------------------------------------- filters: claims

\* C22, as a state: the request the last Filter call returned is the one a
\* row stores under the session id and the filter id that were asked for.
C22_ReturnedFilterStored ==
    filt.got.req # "<nil>" =>
        /\ filt.got.err = "nil"
        /\ [filter_id |-> filt.got.filterID, session_id |-> filt.got.sessionID,
            req_json |-> MarshalRequest(filt.got.req)] \in filt.filters

\* C22, round trip: after InsertFilter(s, req) returned f, Filter(s, f)
\* returns req.
C22_InsertThenFilter ==
    \A i \in SessionIDs, req \in Requests, fail \in BOOLEAN :
        InsertFilter(i, req, fail) /\ filt'.ins.err = "nil" =>
            FilterResult(filt'.filters, i, filt'.ins.filterID, FALSE) =
                [req |-> req, err |-> "nil"]

\* C22, errors: Filter(s, f) returns an error and no filter when no row has
\* filter id f under session s.
C22_UnknownIsError ==
    \A i \in SessionIDs, f \in FilterIDs, fail \in BOOLEAN :
        Filter(i, f, fail) /\ FilterRows(filt.filters, i, f) = {} =>
            filt'.got.req = "<nil>" /\ filt'.got.err # "nil"

\* C22: filters are keyed by (session_id, filter_id): Filter(s, f) returns
\* the request InsertFilter(s, req) stored under the returned id f, and an
\* error, never a filter, when f is unknown or belongs to another session.
C22_KeyedBySessionAndFilter ==
    /\ []C22_ReturnedFilterStored
    /\ [][C22_InsertThenFilter /\ C22_UnknownIsError]_vars

\* C22 witness: filter 1 holds reqA for session 1, and Filter(2, 1) returned
\* the no-rows error and no filter.
C22_Witness ==
    /\ [filter_id |-> 1, session_id |-> 1, req_json |-> MarshalRequest("reqA")]
            \in filt.filters
    /\ filt.got = [sessionID |-> 2, filterID |-> 1, req |-> "<nil>",
                   err |-> "sql: no rows in result set"]

\* --------------------------------------------------------- pubsub: claims

\* The V2Listener method of each payload type, lines 13-26.
C23_MethodOf ==
    [t \in V2Types |->
        CASE t = "V2Initialise" -> "Initialise"
          [] t = "V2Accumulate" -> "Accumulate"
          [] t = "V2AccountData" -> "OnAccountData"
          [] t = "V2InviteRoom" -> "OnInvite"
          [] t = "V2LeaveRoom" -> "OnLeftRoom"
          [] t = "V2UnreadCounts" -> "OnUnreadCounts"
          [] t = "V2InitialSyncComplete" -> "OnInitialSyncComplete"
          [] t = "V2DeviceData" -> "OnDeviceData"
          [] t = "V2Typing" -> "OnTyping"
          [] t = "V2Receipt" -> "OnReceipt"
          [] t = "V2DeviceMessages" -> "OnDeviceMessages"
          [] t = "V2ExpiredToken" -> "OnExpiredToken"]

\* The payloads handed to onMessage so far that have a known type, in
\* publication order.
C23_Handled ==
    SelectSeq(SubSeq(v2.published, 1, v2.next - 1), LAMBDA p : p.type \in V2Types)

\* C23: the receiver's calls are, in publication order, one call per handled
\* payload of a known type, each of the method matching the payload's type;
\* a payload of another type makes no call; at most one call is running, and
\* it is the last one.
C23_DeliveryInOrder ==
    /\ Cardinality(V2Types) = 12
    /\ Len(v2.calls) = Len(C23_Handled)
    /\ \A i \in 1..Len(v2.calls) :
        /\ v2.calls[i].p = C23_Handled[i]
        /\ v2.calls[i].method = C23_MethodOf[v2.calls[i].p.type]
    /\ v2.busy => /\ v2.calls # <<>>
                  /\ v2.calls[Len(v2.calls)].p = v2.published[v2.next - 1]

\* C23, as a step: a payload is handed to onMessage only when no receiver
\* call is running, and it makes one call or, for an unknown type, none.
C23_OneCallAtATime ==
    OnMessage =>
        /\ ~v2.busy
        /\ Len(v2'.calls) = Len(v2.calls) +
              (IF v2.published[v2.next].type \in V2Types THEN 1 ELSE 0)

\* C23: payloads of the v2 channel reach the receiver in publication order,
\* each invoking exactly the V2Listener method of its type before the next
\* payload is handled, and none for a type onMessage does not know.
C23_V2Delivery ==
    /\ []C23_DeliveryInOrder
    /\ [][C23_OneCallAtATime]_vars

\* C23 witness: a payload of an unknown type and then a typing payload were
\* published and handled; the receiver got the one OnTyping call.
C23_Witness ==
    /\ v2.published = <<Payload("V3Other", 1), Payload("V2Typing", 2)>>
    /\ v2.next = 3
    /\ v2.calls = <<[method |-> "OnTyping", p |-> Payload("V2Typing", 2)]>>
    /\ ~v2.busy

\* ----------------------------------------------------- typing: claims

\* The rooms a typing extension covers: the visible ranges of the lists it
\* names ("*": all lists), the rooms it names, and the room subscriptions when
\* it leaves rooms out.
C24_Scope(ext, lists, subs) ==
    UNION {VisibleRooms(lists, name) :
              name \in IF "*" \in ext.lists THEN ListNames ELSE ext.lists \cap ListNames}
        \cup (IF ext.rooms.omitted THEN subs ELSE ext.rooms.ids)

\* The rooms with typing in the last response.
C24_TypingRoomsOf(res) == {e.room : e \in res.rooms}

\* C24, as a step: the rooms with typing in a response are exactly the rooms
\* that have typing to report (a stored event for the initial request, the
\* update for a live one) and are in the extension's scope at that time.
C24_InScopeIff ==
    /\ \A lists \in ListRanges, subs \in Subscriptions, l \in ExtLists, r \in ExtRooms :
        TypingInitialRequest(lists, subs, [lists |-> l, rooms |-> r]) =>
            C24_TypingRoomsOf(typ'.res) =
                {q \in TypingRoomIDs : typ.typing[q] # 0} \cap
                    C24_Scope([lists |-> l, rooms |-> r], lists, subs)
    /\ \A lists \in ListRanges :
        TypingLiveRequest(lists) =>
            C24_TypingRoomsOf(typ'.res) =
                {Head(typ.queue).room} \cap C24_Scope(typ.ext, lists, typ.subs)

\* C24, the example: with lists = ["r0"] and rooms = [], no response has
\* typing for a room outside the visible range of r0.
C24_OutsideWindowNever ==
    typ.ext = [lists |-> {"r0"}, rooms |-> [omitted |-> FALSE, ids |-> {}]] =>
        C24_TypingRoomsOf(typ.res) \subseteq VisibleRooms(typ.lists, "r0")

C25_InitialReplaysStored ==
    \A lists \in ListRanges, subs \in Subscriptions, l \in ExtLists, r \in ExtRooms :
        TypingInitialRequest(lists, subs, [lists |-> l, rooms |-> r]) =>
            typ'.res.rooms =
                {[room |-> q, n |-> typ.typing[q]] :
                    q \in {x \in C24_Scope([lists |-> l, rooms |-> r], lists, subs) :
                              typ.typing[x] # 0}}

\* C25, afterwards: a later response carries typing only for the live update
\* it answers, which was ingested after the connection existed; the typing
\* of the initial response was ingested before.
C25_LiveAfterConnecting ==
    /\ typ.res.kind = "live" =>
        /\ typ.res.rooms \subseteq {typ.res.update}
        /\ typ.res.update.n > typ.connectedAt
    /\ typ.res.kind = "initial" =>
        \A e \in typ.res.rooms : e.n <= typ.connectedAt
    /\ \A i \in 1..Len(typ.queue) : typ.queue[i].n > typ.connectedAt

C27_CopyNow(r) ==
    IF roomIDToMetadata[r] # NilMeta THEN CopyOf(roomIDToMetadata[r]) ELSE NoCopy

\* C27, during the call: while LoadRooms holds the read lock the cache is the
\* one it found, and every copy made so far is a copy from it.
C27_SteadyUnderLock ==
    snap.pc = "loop" =>
        /\ \A r \in RoomIDs : C27_CopyNow(r) = snap.atLock[r]
        /\ \A r \in RoomIDs : snap.result[r] \in {NoCopy, snap.atLock[r]}

\* C27, the result: the map LoadRooms returned has, for exactly the requested
\* rooms that had an entry, the copy of the one cache state the call began
\* with.
C27_ResultIsSnapshot ==
    snap.pc = "returned" =>
        loaded = [r \in RoomIDs |->
                    IF r \in Elems(snap.ids) THEN snap.atLock[r] ELSE NoCopy]

\* C27: LoadRooms is an atomic point-in-time snapshot: the metadata returned
\* for all requested rooms reflects a single cache state, and the result has
\* an entry exactly for the requested rooms present in the cache.
C27_AtomicSnapshot == C27_SteadyUnderLock /\ C27_ResultIsSnapshot

\* C27 witness: LoadRooms("!b", "!a") returned a copy of !a named n1 and no
\* entry for !b, which had none; since then the writer has made !b and
\* renamed !a.
C27_Witness ==
    /\ snap.pc = "returned"
    /\ snap.ids = <<"!b", "!a">>
    /\ loaded["!b"] = NoCopy
    /\ loaded["!a"].meta.NameEvent = "n1"
    /\ roomIDToMetadata["!b"] # NilMeta
    /\ roomIDToMetadata["!a"].NameEvent = "n2"

\* ------------------------------------------ cache: LoadJoinedRooms claims

\* The entries of the cache after the first pos events of log, from no room.
RECURSIVE C28_MetasAfter(_, _)
C28_MetasAfter(log, pos) ==
    IF pos = 0 THEN [r \in RoomIDs |-> NilMeta]
    ELSE EventMeta(C28_MetasAfter(log, pos - 1), log[pos])

\* C28: LoadJoinedRooms returns (pos, rooms) where pos is a stored position,
\* rooms has only rooms the user is joined to at pos, and every returned
\* metadata is the cache state the events up to pos produce, whatever the
\* writer does during the call; on a storage error it returns (0, nil, err).
C28_RoomsAtPos ==
    ljr.pc = "returned" =>
        IF ljr.ret.err
            THEN ljr.ret.pos = 0 /\ ljr.ret.rooms = "nil"
            ELSE /\ ljr.ret.pos \in 0..Len(ljr.log)
                 /\ \A r \in RoomIDs :
                        ljr.ret.rooms[r] # NoCopy =>
                            /\ r \in JoinedRoomsAfterPosition(ljr.log, JoinedUser, ljr.ret.pos)
                            /\ ljr.ret.rooms[r].meta = C28_MetasAfter(ljr.log, ljr.ret.pos)[r]

\* C28, the part that holds: a storage error gives (0, nil, err), and a
\* returned room is one the user is joined to at the returned position.
C28_ErrorAndMembership ==
    ljr.pc = "returned" =>
        IF ljr.ret.err
            THEN ljr.ret.pos = 0 /\ ljr.ret.rooms = "nil"
            ELSE \A r \in RoomIDs :
                    ljr.ret.rooms[r] # NoCopy =>
                        r \in JoinedRoomsAfterPosition(ljr.log, JoinedUser, ljr.ret.pos)

\* C28: the writer applied an event newer than pos before the rooms were
\* copied, and the call returned the newer name under the older position.
C28_NewerThanPos ==
    /\ ljr.pc = "returned"
    /\ ~ljr.ret.err
    /\ ljr.ret.pos = 2
    /\ ljr.ret.rooms["!a"] # NoCopy
    /\ C28_MetasAfter(ljr.log, 2)["!a"].NameEvent = "n1"
    /\ ljr.ret.rooms["!a"].meta.NameEvent = "n2"

\* ----------------------------------- cache: timestamp and member-count claims

\* C29: after every OnNewEvent(ed), whatever the event's type and state key,
\* the metadata of ed.RoomID has LastMessageTimestamp = ed.Timestamp, also
\* when that is older than the value it replaces; no other room's metadata
\* changes.
C29_TimestampFollowsArrival ==
    [][\A ed \in StampEvents :
          OnNewEvent(ed) =>
              /\ roomIDToMetadata'[ed.RoomID].LastMessageTimestamp = ed.Timestamp
              /\ \A r \in RoomIDs \ {ed.RoomID} :
                    /\ roomIDToMetadata'[r] = roomIDToMetadata[r]
                    /\ mapHeap'[r] = mapHeap[r]]_vars

\* C29 witness: room !a was renamed by an event of timestamp 3, and a message
\* of timestamp 1 that arrived later has set the room's timestamp back to 1.
C29_Witness ==
    /\ lastOp.op = "OnNewEvent"
    /\ lastOp.ed.RoomID = "!a"
    /\ lastOp.ed.EventType = "m.room.message"
    /\ lastOp.ed.Timestamp = 1
    /\ roomIDToMetadata["!a"].NameEvent = "n1"
    /\ roomIDToMetadata["!a"].LastMessageTimestamp = 1

\* A membership change: a member event with a state key whose membership is
\* not the one it replaces.
C30_MembershipChange(ed) ==
    /\ ed.EventType = "m.room.member"
    /\ ed.StateKey # NilStr
    /\ ed.membership # ed.prevMembership

\* C30: a member event that is a membership change sets the room's JoinCount
\* and InviteCount to the counts the event carries; every other event, a member
\* event that changes no membership included, leaves both counts as they were.
C30_CountsFollowMembership ==
    [][\A ed \in StampEvents :
          OnNewEvent(ed) =>
              LET before == MetadataFor(ed.RoomID)
                  after == roomIDToMetadata'[ed.RoomID]
              IN  IF C30_MembershipChange(ed)
                      THEN /\ after.JoinCount = ed.JoinCount
                           /\ after.InviteCount = ed.InviteCount
                      ELSE /\ after.JoinCount = before.JoinCount
                           /\ after.InviteCount = before.InviteCount]_vars

\* C30 witness: a join set the counts of a room to (1, 0), and a display-name
\* change of the joined user that carries (2, 1) has left them there.
C30_Witness ==
    /\ lastOp.op = "OnNewEvent"
    /\ lastOp.ed.EventType = "m.room.member"
    /\ lastOp.ed.StateKey = UserPool[1]
    /\ lastOp.ed.membership = "join"
    /\ lastOp.ed.prevMembership = "join"
    /\ lastOp.ed.JoinCount = 2
    /\ roomIDToMetadata[lastOp.ed.RoomID].JoinCount = 1
    /\ roomIDToMetadata[lastOp.ed.RoomID].InviteCount = 0
    /\ Len(roomIDToMetadata[lastOp.ed.RoomID].Heroes) = 1

\* ------------------------------------------------- cache: hero id claims

\* The ids of a heroes list, in order.
C31_IDs(heroes) == [i \in 1..Len(heroes) |-> heroes[i].ID]

\* C31, the invariant: no user is in a room's heroes twice.
C31_DistinctIDs ==
    \A r \in RoomIDs :
        \A i, j \in 1..Len(roomIDToMetadata[r].Heroes) :
            roomIDToMetadata[r].Heroes[i].ID = roomIDToMetadata[r].Heroes[j].ID => i = j

\* C31, the step: a join or invite of a user in a list of fewer than 6 heroes
\* changes that hero's name and nothing else of the list; the list grows only
\* by one hero, at the end, for a user that was absent from fewer than 6.
C31_UpdateOrAppend ==
    \A ed \in NamedHeroEvents :
        OnNewEvent(ed) =>
            LET before == MetadataFor(ed.RoomID).Heroes
                after == roomIDToMetadata'[ed.RoomID].Heroes
                at == HeroIndex(before, ed.StateKey)
            IN  /\ (/\ ed.membership \in {"join", "invite"}
                    /\ Len(before) < HeroLimit
                    /\ at # 0) =>
                        /\ C31_IDs(after) = C31_IDs(before)
                        /\ after[at].Name = ed.displayname
                        /\ \A i \in 1..Len(before) : i # at => after[i] = before[i]
                /\ Len(after) > Len(before) =>
                        /\ at = 0
                        /\ Len(before) < HeroLimit
                        /\ after = Append(before, Hero(ed.StateKey, ed.displayname))

\* C31: hero ids are pairwise distinct in every reachable state; a join or
\* invite of a present hero only renames it, and a user is appended only when
\* absent and the list has fewer than 6 entries.
C31_HeroesByID == []C31_DistinctIDs /\ [][C31_UpdateOrAppend]_vars

\* C31 witness: two senders joined, then the first changed its display name:
\* it is still first, once, under the new name.
C31_Witness ==
    /\ lastOp.op = "OnNewEvent"
    /\ lastOp.ed.StateKey = UserPool[HeroLimit - 1]
    /\ lastOp.ed.membership = "join"
    /\ lastOp.ed.displayname = "n1"
    /\ roomIDToMetadata["!a"].Heroes =
           <<Hero(UserPool[HeroLimit - 1], "n1"), Hero(UserPool[HeroLimit], "")>>

\* -------------------------------------- cache: state key and type claims

\* C32, never reset: no step takes a room's Encrypted flag from true to false.
C32_StaysEncrypted ==
    \A r \in RoomIDs : roomIDToMetadata[r].Encrypted => roomIDToMetadata'[r].Encrypted

\* C32, set only by: the step that makes a room encrypted is OnNewEvent of an
\* m.room.encryption event of that room with an empty state key.
C32_SetByEncryptionEvent ==
    \A r \in RoomIDs :
        (started /\ ~roomIDToMetadata[r].Encrypted /\ roomIDToMetadata'[r].Encrypted) =>
            \E ed \in GuardEvents :
                /\ OnNewEvent(ed)
                /\ ed.RoomID = r
                /\ ed.EventType = "m.room.encryption"
                /\ ed.StateKey = ""

\* C32: once a room's encrypted flag is true it stays true under every
\* OnNewEvent and OnEphemeralEvent, and it becomes true only on an
\* m.room.encryption event with an empty state key.
C32_EncryptedForGood == [][C32_StaysEncrypted /\ C32_SetByEncryptionEvent]_vars

\* C32 witness: room !a was encrypted, had a typing notification, and an
\* m.room.encryption event with state key "x" arrived last: it is still
\* encrypted.
C32_Witness ==
    /\ roomIDToMetadata["!a"].Encrypted
    /\ roomIDToMetadata["!a"].TypingEvent.body = "t1"
    /\ lastOp.op = "OnNewEvent"
    /\ lastOp.ed.EventType = "m.room.encryption"
    /\ lastOp.ed.StateKey = "x"

\* C33: an event of a guarded type whose state key is absent or not empty,
\* and an event of a type OnNewEvent has no case for, changes no field of the
\* room's metadata other than LastMessageTimestamp, and no child set.
C33_StateKeyGuard ==
    [][\A ed \in GuardEvents :
          (/\ OnNewEvent(ed)
           /\ \/ ed.EventType \in GuardedTypes /\ ed.StateKey # ""
              \/ ed.EventType \in UnhandledTypes) =>
              /\ [roomIDToMetadata'[ed.RoomID] EXCEPT
                     !.LastMessageTimestamp = MetadataFor(ed.RoomID).LastMessageTimestamp]
                  = MetadataFor(ed.RoomID)
              /\ mapHeap' = mapHeap]_vars

\* C33 witness: room !a has an alias from an event with an empty state key,
\* and an m.room.name event with state key "x" and name n1 arrived last: the
\* room has no name.
C33_Witness ==
    /\ lastOp.op = "OnNewEvent"
    /\ lastOp.ed.EventType = "m.room.name"
    /\ lastOp.ed.StateKey = "x"
    /\ lastOp.ed.name = "n1"
    /\ roomIDToMetadata["!a"].NameEvent = ""
    /\ roomIDToMetadata["!a"].CanonicalAlias = "#a"
    /\ roomIDToMetadata["!a"].LastMessageTimestamp = 3

\* C34: OnEphemeralEvent(room, payload) on a room the cache has puts the
\* payload in TypingEvent when its type is m.typing and changes nothing else;
\* a payload of another type changes nothing at all.
C34_TypingOnly ==
    [][\A e \in GuardEphemerals, r \in RoomIDs :
          (OnEphemeralEvent(r, e) /\ roomIDToMetadata[r] # NilMeta) =>
              /\ roomIDToMetadata' =
                    [roomIDToMetadata EXCEPT
                        ![r] = IF e.type = "m.typing" THEN [@ EXCEPT !.TypingEvent = e]
                                                      ELSE @]
              /\ mapHeap' = mapHeap]_vars

\* C34 witness: room !a, named n1 with a child and timestamp 3, had the
\* typing notification t1 and then t2: it holds t2 and the rest is as before.
C34_Witness ==
    /\ lastOp.op = "OnEphemeralEvent"
    /\ roomIDToMetadata["!a"].TypingEvent = [type |-> "m.typing", body |-> "t2"]
    /\ roomIDToMetadata["!a"].NameEvent = "n1"
    /\ roomIDToMetadata["!a"].LastMessageTimestamp = 3
    /\ mapHeap["!a"] = {"!b"}

\* ------------------------------------------- sqlutil: end of transaction

\* The positions of the given call among the calls of the last WithTransaction.
C35_At(calls, name) == {i \in 1..Len(calls) : calls[i] = name}

\* C35: for every transaction it begins, WithTransaction calls exactly one of
\* Commit and Rollback, after the callback; when Begin fails it calls neither
\* and not the callback; a callback error is returned also when Rollback
\* fails, and a failed Commit after a callback that succeeded is an error.
C35_OneEnd ==
    [][\A beginErr \in BOOLEAN, outcome \in FnOutcomes, v \in 1..NumWrites,
          endErr \in BOOLEAN, nilPanicIsNil \in BOOLEAN :
          WithTransaction(beginErr, outcome, v, endErr, nilPanicIsNil) =>
              LET calls == tx'.calls
                  ends == C35_At(calls, "Commit") \cup C35_At(calls, "Rollback")
              IN  IF beginErr
                      THEN /\ C35_At(calls, "fn") = {}
                           /\ ends = {}
                           /\ tx'.ret # "nil"
                           /\ tx'.db = tx.db
                      ELSE /\ Cardinality(ends) = 1
                           /\ Cardinality(C35_At(calls, "fn")) = 1
                           /\ \A i \in ends, j \in C35_At(calls, "fn") : j < i
                           /\ (outcome = "error" /\ endErr) => tx'.ret = FnErr(outcome)
                           /\ (outcome = "nil" /\ endErr) => tx'.ret # "nil"]_vars

\* C35 witness: the callback returned nil after writing, Commit failed: the
\* call returned an error and the database is as it was.
C35_Witness ==
    /\ tx.outcome = "nil"
    /\ tx.calls = <<"Begin", "fn", "Commit">>
    /\ tx.ret = "WithTransaction failed to commit/rollback"
    /\ tx.db # tx.wrote

\* ------------------------------------------------ sqlutil: Chunkify claims

\* The chunks laid end to end.
RECURSIVE C36_Concat(_)
C36_Concat(chunks) ==
    IF chunks = <<>> THEN <<>> ELSE Head(chunks) \o C36_Concat(Tail(chunks))

\* C36: for numParamsPerStmt >= 1 and maxParamsPerCall >= numParamsPerStmt the
\* chunks Chunkify returns, laid end to end, are the input entries; every
\* chunk fits (len * numParamsPerStmt <= maxParamsPerCall); every chunk but
\* the last has exactly floor(maxParamsPerCall / numParamsPerStmt) entries.
C36_Partition ==
    (chk.c1.pc = "returned" /\ chk.n >= 1 /\ chk.m >= chk.n) =>
        /\ C36_Concat(chk.c1.chunks) = chk.entries
        /\ \A k \in 1..Len(chk.c1.chunks) : Len(chk.c1.chunks[k]) * chk.n <= chk.m
        /\ \A k \in 1..(Len(chk.c1.chunks) - 1) :
               Len(chk.c1.chunks[k]) = chk.m \div chk.n

\* C36 witness: three entries of one parameter each, two parameters a call:
\* a chunk of two and a chunk of one.
C36_Witness ==
    /\ chk.c1.pc = "returned"
    /\ chk.n = 1 /\ chk.m = 2
    /\ chk.c1.chunks = <<(<<1, 2>>), (<<3>>)>>

\* C37: Chunkify and Chunkify2 terminate for every input with
\* numParamsPerStmt >= 1 and maxParamsPerCall >= 1, also when one entry needs
\* more parameters than maxParamsPerCall: every call returns.
C37_Terminates ==
    /\ (chk.c1.pc = "called") ~> (chk.c1.pc = "returned")
    /\ (chk.c2.pc = "called") ~> (chk.c2.pc = "returned")

\* C37, what holds: a turn of either loop moves its index forward when a
\* statement's parameters fit in a call.
C37_ProgressWhenFits ==
    [][chk.m >= chk.n =>
          /\ ChunkifyIter => chk'.c1.i > chk.c1.i
          /\ Chunkify2Iter => chk'.c2.i > chk.c2.i]_vars

\* C37: one entry of three parameters with two parameters a call: Chunkify
\* has been round its loop more often than there are entries, its index is
\* still 0 and every chunk is empty.
C37_Spinning ==
    /\ chk.n = 3 /\ chk.m = 2 /\ Len(chk.entries) = 1
    /\ chk.c1.pc = "loop"
    /\ chk.c1.i = 0
    /\ Len(chk.c1.chunks) > Len(chk.entries)
    /\ \A k \in 1..Len(chk.c1.chunks) : chk.c1.chunks[k] = <<>>

\* C38: Chunkify2 and Chunkify, given the same numParamsPerStmt,
\* maxParamsPerCall and entries, return the same chunks: as many, with the
\* same boundaries and contents; and after equally many turns of their loops
\* they have built the same chunks.
C38_SameChunks ==
    /\ (chk.c1.pc = "returned" /\ chk.c2.pc = "returned") => chk.c1.chunks = chk.c2.chunks
    /\ (chk.c1.pc = chk.c2.pc /\ Len(chk.c1.chunks) = Len(chk.c2.chunks)) =>
            chk.c1.chunks = chk.c2.chunks /\ chk.c1.i = chk.c2.i

\* C38 witness: both returned two chunks of one entry for two entries of two
\* parameters each with three parameters a call.
C38_Witness ==
    /\ chk.c1.pc = "returned" /\ chk.c2.pc = "returned"
    /\ chk.n = 2 /\ chk.m = 3
    /\ chk.c2.chunks = <<(<<1>>), (<<2>>)>>
    /\ chk.c1.chunks = chk.c2.chunks

====
